---- MODULE Spec2Model ----
(***************************************************************************)
(* A model of yeet: the agent's reconcile loop and update procedure        *)
(* (yeet-agent/src/agent.rs), the coordinator's secret store               *)
(* (yeet-server/src/secret_store.rs), its secret routes                    *)
(* (yeet-server/src/routes/secret.rs), its startup and background save     *)
(* task (yeet-server/src/main.rs), and the policy store                    *)
(* (yeet-api/src/auth.rs).                                                 *)
(*                                                                         *)
(* Fault model of the agent.  Every call whose Result the code propagates  *)
(* with `?` or inspects (is_err, if let Ok) can return Err: that is a      *)
(* nondeterministic choice at the step that makes the call.  A call whose  *)
(* Result the code discards (`let _ = remove_file(..)`, the unused Result  *)
(* of set_permissions, the logged Result of remove_dir_all in get_secrets, *)
(* the removals of remove_all_dirs_unless) succeeds exactly when the file  *)
(* system allows it (its target exists).                                   *)
(*                                                                         *)
(* Option<T> and Result<T, _> values that the code only tests for          *)
(* presence are sets with at most one element: {} is None / Err, {x} is    *)
(* Some(x) / Ok(x).                                                        *)
(*                                                                         *)
(* age.  A byte string is a record: an age file for one recipient carrying *)
(* a plaintext, or bytes that are no age file.  age::decrypt(identity, b)  *)
(* succeeds exactly on an age file whose recipient is the identity's       *)
(* public key.                                                             *)
(*                                                                         *)
(* Files of the coordinator.  A file is absent ({}) or holds a sequence of *)
(* tokens; serde_json::to_vec_pretty writes an AppState as the document    *)
(* <<"{", secrets, acl, "}">> and serde_json::from_reader accepts exactly  *)
(* such a document, so an empty or cut-off file does not parse.  Of        *)
(* AppState the model serializes the secret store.  write_all_at writes    *)
(* the document token by token.  The process can stop at any step; files   *)
(* keep what was written, memory is lost.                                  *)
(***************************************************************************)
EXTENDS Integers, Sequences, FiniteSets, TLC

\* ------------------------------------------------------------- bounds
\* Largest generation number an update may stage.
MaxGen == 2
\* Largest number of secrets declared by one yeet-secrets.json.
MaxSecrets == 2
\* Largest number of POST /system/verify requests counted.
MaxPosts == 2
\* Largest number of host names the ACL lists hold together.
MaxGrants == 3

\* ---------------------------------------------------------- value sets
StorePaths == {"/nix/store/aaaa-sys", "/nix/store/bbbb-sys"}
\* File names (Secret.name) a manifest may declare.
SecretNames == {"db", "tls"}
\* Verification codes the coordinator may hand out.
Codes == {"4217", "8051"}
NoCode == "unset"
\* The manifests an artifact may carry: the (definition) lists get_secrets
\* iterates, in HashMap order, so any order and, because two definitions may
\* name the same file, with repetition.
Manifests == UNION {[1..k -> SecretNames] : k \in 0..MaxSecrets}

\* Names of stored secrets, host names and plaintexts.
StoreNames == {"my_secret", "newscret"}
Hosts == {"myhost", "newhost", "h1"}
Plaintexts == {"secret_text", "hunter2"}
\* age identities (the coordinator's store key, a host's key) and their
\* public recipients.
Identities == {"store_key", "host"}
store_key == "store_key"
to_public(identity) == IF identity = "store_key" THEN "age1store" ELSE "age1host"
Recipients == {to_public(identity) : identity \in Identities}
\* age::encrypt(recipient, plaintext): an age file for that recipient.
encrypt(recipient, plain) == [age |-> TRUE, to |-> recipient, text |-> plain]
\* Bytes that are no age file.
Raw(bytes) == [age |-> FALSE, to |-> "none", text |-> bytes]
\* age::decrypt(identity, bytes): Ok(plaintext), or Err ({}).
decrypt(identity, bytes) ==
    IF bytes.age /\ bytes.to = to_public(identity) THEN {bytes.text} ELSE {}
\* What a caller may hand to add_secret: a plaintext encrypted for the store
\* key or for another key, or bytes that were never encrypted.
Payloads ==
    {encrypt(to_public(store_key), p) : p \in Plaintexts}
        \cup {encrypt(to_public("host"), "secret_text"), Raw("secret_text")}

\* --- the policy store's values: identities (owners), actions, tags (uuids)
Owners == {"me", "my_user"}
Actions == {"Host::Rename", "Host::Remove"}
Tags == {"tag-1", "tag-2"}
TagSet == SUBSET Tags

\* --- the coordinator process: the paths YEET_STATE may name, the keys
\* that sign requests, the mutating secret routes
Paths == {"state.json", "other.json"}
Keys == {"admin", "user"}
Routes == {"/secret/add", "/secret/rename", "/secret/remove", "/secret/acl"}

VARIABLES
    \* --- agent_loop and the retry harness
    pc,                 \* where the agent is
    VERIFICATION_CODE,  \* the process-wide OnceLock<u32>
    \* --- coordinator, as far as the agent sees it
    verified,           \* GET /system/verify answers 200 for the agent's key
    pending,            \* the open verification attempt's code, or NoCode
    \* --- host state the agent owns
    active,             \* get_active_version()
    profile,            \* /nix/var/nix/profiles/system
    link,               \* read_link("/etc/yeet/secret"): {} or {n}
    dirs,               \* /etc/yeet/secret.d: n |-> set of <<file, status>>
    \* --- the stack frame of update / get_secrets / create_generation:
    \* version, current_gen, next_gen, activation_err, secrets, generation, idx
    u,
    \* --- history (not read by the program)
    posts,              \* POST /system/verify requests made, capped
    answered,           \* of which answered with a code
    firstCode,          \* the code of the first answered attempt
    report,             \* the code in the last fail-fast message
    latePost,           \* a POST was made although a code was cached
    sawVerified,        \* some enrollment check of this process found the host verified
    pre,                \* host state when the running/last update began
    trace,              \* what the running/last update did
    seen,               \* generation numbers staged or current so far
    \* --- SecretStore
    secrets,            \* HashMap<String, Vec<u8>>: secret_name -> secret
    acl,                \* HashMap<String, Vec<String>>: secret_name -> hosts
    \* --- history of the secret store (not read by the program)
    last,               \* the last call on the store and what it returned
    before,             \* the store as it was before that call
    removal,            \* per name: what happened since its last remove_secret
    accepted,           \* per name: the plaintext add_secret accepted last under it
    plaintext,          \* per name: the plaintext that now goes by that name
    tracking,           \* which of removal, accepted/plaintext is kept
    \* --- PolicyStore<String>
    policy_store,       \* [tags: TagSet, policies: HashMap<(Identity, Action), TagSet>]
    \* --- history of the policy store (not read by the program)
    asked,              \* the last call on the policy store, its result, the store before it
    \* --- the coordinator process (main.rs, routes/secret.rs)
    main,               \* where main() is: "down", "up", "panicked"
    YEET_STATE,         \* env::var("YEET_STATE"): {} or {path}
    files,              \* the file system: path -> {} or {content}
    save,               \* save_state: its position and its locals hash, data
    guard,              \* the RwLock on AppState: "free", "read", "write"
    request,            \* the secret request being handled
    peer,               \* a second handler: a /secret/remove running beside it
    \* --- history of the persistence (not read by the program)
    snapshots           \* what main loaded, what the save task wrote

agentVars == <<pc, VERIFICATION_CODE>>
serverVars == <<verified, pending>>
hostVars == <<active, profile, link, dirs>>
enrolHist == <<posts, answered, firstCode, report, latePost, sawVerified>>
updateHist == <<pre, trace, seen>>
storeVars == <<secrets, acl, last, before, removal, accepted, plaintext, tracking>>
policyVars == <<policy_store, asked>>
\* what the coordinator holds and the agent's steps never touch
procVars == <<main, YEET_STATE, files, save, guard, request, peer, snapshots>>
coordinatorVars == <<storeVars, policyVars, procVars>>
\* what the secret store's methods never touch
agentSide == <<agentVars, serverVars, hostVars, u, enrolHist, updateHist>>
vars == <<agentSide, coordinatorVars>>

\* ------------------------------------------------------------ helpers
The(s) == CHOOSE x \in s : TRUE

\* No update is running: the frame's fields hold their first values.
NoFrame ==
    [version |-> "none", current_gen |-> {}, next_gen |-> {}, activation_err |-> FALSE,
     secrets |-> <<>>, generation |-> 0, idx |-> 1,
     netrc |-> "none", netrc_file |-> FALSE]

\* What an update did: the version asked for, how update() returned, whether
\* the artifact had a manifest, whether a fetch failed, the generation staged,
\* whether set_system_profile and the activation script ran and the script's
\* exit code, whether the post-activation check found another version active
\* than the one asked for, whether the commit branch ran; the step at which
\* download() failed, if it did; the steps of update() that have ended, in
\* the order in which they ended, each with whether it succeeded.
NoTrace ==
    [version |-> "none", ret |-> "none", manifest |-> FALSE, fetchFailed |-> FALSE,
     staged |-> {}, ranProfile |-> FALSE, ranScript |-> FALSE,
     exit |-> "none", mismatch |-> FALSE, committed |-> FALSE,
     download |-> "none", steps |-> <<>>]

\* Result<Option<Vec<u8>>> and Result<()>: Err, or Ok with None / Some(bytes).
Ok(val) == [err |-> FALSE, val |-> val]
Err == [err |-> TRUE, val |-> {}]
\* The histories of the secret store a specification may keep besides the
\* last call.
Trackings == {"none", "plaintexts", "removals"}
\* HashMap::new()
NoEntries == [k \in {} |-> {}]
\* No call has been made on the store yet.
NoCall ==
    [op |-> "new", secret |-> "-", host |-> "-", new |-> "-",
     payload |-> Raw(""), recipient |-> "-", ret |-> Ok({})]

\* PolicyStore::default()
NoPolicies == [tags |-> {}, policies |-> NoEntries]
\* No call has been made on the policy store yet.  A call is recorded with
\* its arguments, the bool check_permission returned, the tag create_tag
\* returned, the Option<TagSet> delete_policy returned, and the store as it
\* was before the call.
NoAsk ==
    [op |-> "default", owner |-> "-", action |-> "-", tags |-> {}, tag |-> "-",
     check |-> FALSE, removed |-> {}, before |-> NoPolicies]

\* No request is being handled.  A request has its route, the key and
\* whether the signature verifies, the fields of its body (name is name,
\* current_name, secret_name or secret; allow tells AllowHost from
\* RemoveHost), where its handler is, the status answered, and AppState as
\* it was when the request came in.
NoRequest ==
    [stage |-> "none", status |-> "-", route |-> "-", key |-> "-", signed |-> FALSE,
     name |-> "-", new_name |-> "-", host |-> "-", secret |-> Raw(""), allow |-> FALSE,
     before |-> [secrets |-> NoEntries, acl |-> NoEntries]]
\* save_state has not been spawned.
\* No second handler runs.  One that does has the name of the secret it is
\* to remove and the place where it is; with it goes AppState as it was when
\* the last handler returned.
NoPeer ==
    [stage |-> "none", name |-> "-",
     committed |-> [secrets |-> NoEntries, acl |-> NoEntries]]
NoSave == [pc |-> "off", hash |-> 0, data |-> <<>>]
\* Nothing loaded, nothing written: the state main loaded, the paths that
\* have held a complete document, the document the running save task wrote
\* last.
NoSnapshots == [loaded |-> {}, held |-> {}, task |-> {}]

\* A complete secret file: created, given its mode, written, chown'ed.
Complete == "chowned"
FilesOf(d, n) == {f[1] : f \in d[n]}

\* The update before the running or last one was not interrupted; of one that
\* was, the link before it and the generation it staged are kept.
NoInterrupt == [on |-> FALSE, link |-> {}, staged |-> {}]

\* The trace t with one more step of update() ended.
Step(t, step, ok) == [t EXCEPT !.steps = Append(@, [step |-> step, ok |-> ok])]

\* `return Err(..)` out of update(): agent_action and agent_loop propagate it
\* with `?` to the retry harness.
ReturnErr(t) ==
    /\ pc' = "retry"
    /\ u' = NoFrame
    /\ trace' = [t EXCEPT !.ret = "Err"]

\* ---------------------------------------------------------------- Init
Init ==
    /\ pc = "verify"
    /\ VERIFICATION_CODE = NoCode
    /\ verified \in BOOLEAN
    /\ pending = NoCode
    /\ active = "/nix/store/aaaa-sys"
    /\ profile = "/nix/store/aaaa-sys"
    \* a fresh host, or one whose generation 0 was committed by an earlier run
    /\ \/ link = {} /\ dirs = [n \in {} |-> {}]
       \/ link = {0} /\ dirs = [n \in {0} |-> {<<"db", Complete>>}]
    /\ u = NoFrame
    /\ posts = 0
    /\ answered = 0
    /\ firstCode = NoCode
    /\ report = NoCode
    /\ latePost = FALSE
    /\ sawVerified = FALSE
    /\ pre = [link |-> link, dirs |-> dirs, active |-> active,
              profile |-> profile, seen |-> link, interrupted |-> NoInterrupt]
    /\ trace = NoTrace
    /\ seen = link
    \* SecretStore::new()
    /\ secrets = NoEntries
    /\ acl = NoEntries
    /\ last = NoCall
    /\ before = [secrets |-> NoEntries, acl |-> NoEntries]
    /\ removal = [s \in StoreNames |-> "live"]
    /\ accepted = [s \in StoreNames |-> {}]
    /\ plaintext = [s \in StoreNames |-> {}]
    /\ tracking \in Trackings
    \* PolicyStore::default()
    /\ policy_store = NoPolicies
    /\ asked = NoAsk
    \* the coordinator has not been started; no state file exists
    /\ main = "down"
    /\ YEET_STATE = {}
    /\ files = [p \in Paths |-> {}]
    /\ save = NoSave
    /\ guard = "free"
    /\ request = NoRequest
    /\ peer = NoPeer
    /\ snapshots = NoSnapshots

\* ===================================================================
\* agent_loop and the retry harness
\* ===================================================================

\* IsHostVerified without the look at the cached code (lines 76-78 left
\* out): every unverified iteration goes on to post an attempt.
IsHostVerified_NoCachedCode ==
    /\ pc = "verify"
    /\ \/ /\ pc' = "retry"
          /\ UNCHANGED sawVerified
       \/ /\ verified
          /\ pc' = "check"
          /\ sawVerified' = TRUE
       \/ /\ ~verified
          /\ pc' = "attempt"
          /\ UNCHANGED sawVerified
    /\ UNCHANGED <<coordinatorVars, VERIFICATION_CODE, serverVars, hostVars, u, report,
                   posts, answered, firstCode, latePost, updateHist>>

\* agent_loop, lines 71-78: the enrollment check, and the fail-fast bail
\* when a code is already cached.
IsHostVerified ==
    /\ pc = "verify"
    /\ \/ \* is_host_verified(..).await? fails
          /\ pc' = "retry"
          /\ UNCHANGED <<report, sawVerified>>
       \/ /\ verified
          /\ pc' = "check"
          /\ sawVerified' = TRUE
          /\ UNCHANGED report
       \/ /\ ~verified
          /\ IF VERIFICATION_CODE # NoCode
               THEN /\ report' = VERIFICATION_CODE
                    /\ pc' = "retry"
               ELSE /\ pc' = "attempt"
                    /\ UNCHANGED report
          /\ UNCHANGED sawVerified
    /\ UNCHANGED <<coordinatorVars, VERIFICATION_CODE, serverVars, hostVars, u,
                   posts, answered, firstCode, latePost, updateHist>>

\* agent_loop, lines 80-100: collect facts, POST the attempt, cache the code.
AddVerificationAttempt ==
    /\ pc = "attempt"
    /\ pc' = "retry"
    /\ \/ \* nix::facter()? or get_active_version()? fails: nothing is sent
          UNCHANGED <<VERIFICATION_CODE, pending, posts, answered, firstCode, latePost>>
       \/ \* the POST is made and fails (.await?): no code is cached
          /\ posts < MaxPosts
          /\ posts' = posts + 1
          /\ latePost' = (latePost \/ VERIFICATION_CODE # NoCode)
          /\ UNCHANGED <<VERIFICATION_CODE, pending, answered, firstCode>>
       \/ \* the POST is answered with a code
          /\ posts < MaxPosts
          /\ \E code \in Codes :
               /\ pending' = code
               /\ VERIFICATION_CODE' =
                      IF VERIFICATION_CODE = NoCode THEN code ELSE VERIFICATION_CODE
               /\ firstCode' = IF answered = 0 THEN code ELSE firstCode
          /\ posts' = posts + 1
          /\ answered' = answered + 1
          /\ latePost' = (latePost \/ VERIFICATION_CODE # NoCode)
    /\ UNCHANGED <<coordinatorVars, verified, hostVars, u, report, sawVerified, updateHist>>

\* Retry that goes on where the loop was left, at the poll, instead of
\* invoking agent_loop anew.
Retry_ResumesPolling ==
    /\ pc = "retry"
    /\ pc' = "check"
    /\ UNCHANGED <<coordinatorVars, VERIFICATION_CODE, serverVars, hostVars, u, enrolHist, updateHist>>

\* agent, lines 50-59: the constant-delay retry harness without_max_times
\* re-invokes agent_loop.
Retry ==
    /\ pc = "retry"
    /\ pc' = "verify"
    /\ UNCHANGED <<coordinatorVars, VERIFICATION_CODE, serverVars, hostVars, u, enrolHist, updateHist>>

\* ===================================================================
\* the coordinator, as far as agent_loop observes it
\* ===================================================================

\* POST /system/verify/accept: an administrator approves the open attempt.
Accept ==
    /\ pending # NoCode
    /\ ~verified
    /\ verified' = TRUE
    /\ pending' = NoCode
    /\ UNCHANGED <<coordinatorVars, agentVars, hostVars, u, enrolHist, updateHist>>

\* POST /host/remove: an administrator removes the host.
HostRemove ==
    /\ verified
    /\ verified' = FALSE
    /\ UNCHANGED <<coordinatorVars, pending, agentVars, hostVars, u, enrolHist, updateHist>>

\* ===================================================================
\* polling
\* ===================================================================

\* get_secrets, lines 296-304: the next generation number.  The symlink is
\* only ever written by get_secrets and update, with a number as its last
\* component, so the parse succeeds whenever the link exists.
gen_num(l) == IF l = {} THEN 0 ELSE The(l) + 1

\* agent_loop, lines 104-117, and agent_action: one poll.  The coordinator
\* answers SwitchTo only with a version other than the reported one.
Check ==
    /\ pc = "check"
    /\ \/ \* get_active_version()? or check(..).await? fails
          /\ pc' = "retry"
          /\ UNCHANGED <<u, updateHist>>
       \/ \* AgentAction::Nothing | AgentAction::Detach
          /\ pc' = "sleep"
          /\ UNCHANGED <<u, updateHist>>
       \/ \* AgentAction::SwitchTo(remote_store_path): update() begins
          /\ gen_num(link) <= MaxGen
          /\ \E v \in StorePaths \ {active} :
               /\ u' = [NoFrame EXCEPT !.version = v]
               /\ trace' = [NoTrace EXCEPT !.version = v, !.ret = "running"]
          /\ pc' = "download"
          /\ pre' = [link |-> link, dirs |-> dirs, active |-> active,
                     profile |-> profile, seen |-> seen,
                     interrupted |->
                        IF trace.ret = "interrupted"
                          THEN [on |-> TRUE, link |-> pre.link, staged |-> trace.staged]
                          ELSE NoInterrupt]
          /\ UNCHANGED seen
    /\ UNCHANGED <<coordinatorVars, VERIFICATION_CODE, serverVars, hostVars, enrolHist>>

\* agent_loop, line 117: time::sleep, then the next poll.
Sleep ==
    /\ pc = "sleep"
    /\ pc' = "check"
    /\ UNCHANGED <<coordinatorVars, VERIFICATION_CODE, serverVars, hostVars, u, enrolHist, updateHist>>

\* ===================================================================
\* update: download and get_secrets
\* ===================================================================

\* What server::secret::get_secret(url, key, "netrc") can return (lines
\* 229-235): Err, Ok(None), Ok(Some(bytes)).
NetrcAnswers == {"Err", "None", "Some"}

\* Download with the Err arm of the netrc match returning the error (line 231
\* as `Err(err) => return Err(err)`).
Download_NetrcAborts ==
    /\ pc = "download"
    /\ \/ \E cause \in {"keys", "tempfile"} :
            ReturnErr(Step([trace EXCEPT !.download = cause], "download", FALSE))
       \/ \E netrc \in NetrcAnswers :
            \/ /\ netrc = "Err"
               /\ ReturnErr(Step([trace EXCEPT !.download = "netrc"], "download", FALSE))
            \/ /\ netrc = "Some"
               /\ ReturnErr(Step([trace EXCEPT !.download = "write"], "download", FALSE))
            \/ /\ netrc # "Err"
               /\ u' = [u EXCEPT !.netrc = netrc, !.netrc_file = (netrc = "Some")]
               /\ pc' = "realise"
               /\ UNCHANGED trace
    /\ UNCHANGED <<coordinatorVars, VERIFICATION_CODE, serverVars, hostVars, enrolHist, pre, seen>>

\* download, lines 199-247, up to the start of nix-store.  In the order of
\* the code: trusted_public_keys()? opens /etc/nix/nix.conf;
\* NamedTempFile::new()? makes the temp file; the netrc secret is fetched, an
\* Err is logged and taken as None; a netrc that was got is written to the
\* temp file (write_all? and flush?) and named in a netrc-file option.
Download ==
    /\ pc = "download"
    /\ \/ \E cause \in {"keys", "tempfile"} :
            ReturnErr(Step([trace EXCEPT !.download = cause], "download", FALSE))
       \/ \E netrc \in NetrcAnswers :
            \/ /\ netrc = "Some"
               /\ ReturnErr(Step([trace EXCEPT !.download = "write"], "download", FALSE))
            \/ /\ u' = [u EXCEPT !.netrc = netrc, !.netrc_file = (netrc = "Some")]
               /\ pc' = "realise"
               /\ UNCHANGED trace
    /\ UNCHANGED <<coordinatorVars, VERIFICATION_CODE, serverVars, hostVars, enrolHist, pre, seen>>

\* download, lines 249-263: command.output()? and the exit status of
\* nix-store; download returns, which drops the temp file, and on Ok update
\* reads current_gen (line 149).
Realise ==
    /\ pc = "realise"
    /\ \/ ReturnErr(Step([trace EXCEPT !.download = "store"], "download", FALSE))
       \/ /\ u' = [u EXCEPT !.current_gen = link, !.netrc = "none", !.netrc_file = FALSE]
          /\ pc' = "get_secrets"
          /\ trace' = Step(trace, "download", TRUE)
    /\ UNCHANGED <<coordinatorVars, VERIFICATION_CODE, serverVars, hostVars, enrolHist, pre, seen>>

\* get_secrets, lines 272-282: read yeet-secrets.json; without one,
\* get_secrets returns Ok and update reads next_gen (line 151).
ReadManifest ==
    /\ pc = "get_secrets"
    /\ \/ \* !path.exists()
          /\ u' = [u EXCEPT !.next_gen = link]
          /\ pc' = "set_profile"
          /\ UNCHANGED trace
       \/ \* read_to_string or serde_json::from_str fails
          ReturnErr(Step(trace, "manifest", FALSE))
       \/ \E m \in Manifests :
          /\ u' = [u EXCEPT !.secrets = m]
          /\ pc' = "fetch"
          /\ trace' = Step([trace EXCEPT !.manifest = TRUE], "manifest", TRUE)
    /\ UNCHANGED <<coordinatorVars, VERIFICATION_CODE, serverVars, hostVars, enrolHist, pre, seen>>

\* FetchSecrets that skips a secret the coordinator does not have instead of
\* bailing (the `else` of line 288 as a `continue`).
FetchSecrets_SkipsMissing ==
    /\ pc = "fetch"
    /\ \E missing \in BOOLEAN :
         /\ missing => u.secrets # <<>>
         /\ trace' = Step([trace EXCEPT !.fetchFailed = missing], "fetch", TRUE)
    /\ u' = [u EXCEPT !.generation = gen_num(link)]
    /\ pc' = "create_dir"
    /\ UNCHANGED <<coordinatorVars, VERIFICATION_CODE, serverVars, hostVars, enrolHist, pre, seen>>

\* get_secrets, lines 285-307: fetch every declared secret, bail on the first
\* that is missing (None) or whose request fails; then compute the path of the
\* next generation.
FetchSecrets ==
    /\ pc = "fetch"
    /\ \/ \* some get_secret returns Ok(None) or Err
          /\ u.secrets # <<>>
          /\ ReturnErr(Step([trace EXCEPT !.fetchFailed = TRUE], "fetch", FALSE))
       \/ /\ u' = [u EXCEPT !.generation = gen_num(link)]
          /\ pc' = "create_dir"
          /\ trace' = Step(trace, "fetch", TRUE)
    /\ UNCHANGED <<coordinatorVars, VERIFICATION_CODE, serverVars, hostVars, enrolHist, pre, seen>>

\* create_generation, lines 331-332: create_dir_all succeeds on an existing
\* directory and keeps what is in it.
CreateDir ==
    /\ pc = "create_dir"
    /\ \/ \* create_dir_all fails
          /\ pc' = "cleanup"
          /\ UNCHANGED <<dirs, trace, seen>>
       \/ /\ dirs' = [n \in DOMAIN dirs \cup {u.generation} |->
                         IF n \in DOMAIN dirs THEN dirs[n] ELSE {}]
          /\ trace' = [trace EXCEPT !.staged = {u.generation}]
          /\ seen' = seen \cup {u.generation}
          /\ pc' = IF u.secrets = <<>> THEN "flip_remove" ELSE "file_create"
    /\ UNCHANGED <<coordinatorVars, VERIFICATION_CODE, serverVars, active, profile, link, u,
                   enrolHist, pre>>

\* dirs with the status of file f in generation n set to st.
SetFile(d, n, f, st) ==
    [d EXCEPT ![n] = {x \in d[n] : x[1] # f} \cup {<<f, st>>}]

\* create_generation, lines 335-341: File::create_new fails on an existing
\* file; file_name() fails on a name without a last component.
FileCreate ==
    /\ pc = "file_create"
    /\ \/ /\ pc' = "cleanup"
          /\ UNCHANGED dirs
       \/ /\ u.secrets[u.idx] \notin FilesOf(dirs, u.generation)
          /\ dirs' = SetFile(dirs, u.generation, u.secrets[u.idx], "created")
          /\ pc' = "file_mode"
    /\ UNCHANGED <<coordinatorVars, VERIFICATION_CODE, serverVars, active, profile, link, u,
                   enrolHist, updateHist>>

\* create_generation, lines 343-346: the mode string is parsed with `?`, the
\* Result of set_permissions is not used.
FileMode ==
    /\ pc = "file_mode"
    /\ \/ \* u32::from_str_radix(&secret.mode, 8)? fails
          /\ pc' = "cleanup"
          /\ UNCHANGED dirs
       \/ /\ dirs' = SetFile(dirs, u.generation, u.secrets[u.idx], "moded")
          /\ pc' = "file_write"
    /\ UNCHANGED <<coordinatorVars, VERIFICATION_CODE, serverVars, active, profile, link, u,
                   enrolHist, updateHist>>

\* create_generation, lines 348-349: write_all and flush; a failed write
\* leaves the file partly written.
FileWrite ==
    /\ pc = "file_write"
    /\ \/ /\ pc' = "cleanup"
          /\ dirs' = SetFile(dirs, u.generation, u.secrets[u.idx], "partial")
       \/ /\ dirs' = SetFile(dirs, u.generation, u.secrets[u.idx], "written")
          /\ pc' = "file_chown"
    /\ UNCHANGED <<coordinatorVars, VERIFICATION_CODE, serverVars, active, profile, link, u,
                   enrolHist, updateHist>>

\* FileChown with the Result of chown dropped (lines 351-356 without the `?`).
FileChown_IgnoresError ==
    /\ pc = "file_chown"
    /\ \E ok \in BOOLEAN :
         dirs' = IF ok THEN SetFile(dirs, u.generation, u.secrets[u.idx], Complete)
                 ELSE dirs
    /\ u' = [u EXCEPT !.idx = u.idx + 1]
    /\ pc' = IF u.idx = Len(u.secrets) THEN "flip_remove" ELSE "file_create"
    /\ UNCHANGED <<coordinatorVars, VERIFICATION_CODE, serverVars, active, profile, link,
                   enrolHist, updateHist>>

\* create_generation, lines 351-357: chown (owner.parse()? twice), then the
\* next secret; after the last one create_generation returns Ok.
FileChown ==
    /\ pc = "file_chown"
    /\ \/ /\ pc' = "cleanup"
          /\ UNCHANGED <<dirs, u>>
       \/ /\ dirs' = SetFile(dirs, u.generation, u.secrets[u.idx], Complete)
          /\ u' = [u EXCEPT !.idx = u.idx + 1]
          /\ pc' = IF u.idx = Len(u.secrets) THEN "flip_remove" ELSE "file_create"
    /\ UNCHANGED <<coordinatorVars, VERIFICATION_CODE, serverVars, active, profile, link,
                   enrolHist, updateHist>>

\* get_secrets, lines 311-318: create_generation failed; remove_dir_all the
\* generation (an error is logged) and return the error.
Cleanup ==
    /\ pc = "cleanup"
    /\ dirs' = [n \in DOMAIN dirs \ {u.generation} |-> dirs[n]]
    /\ ReturnErr(Step(trace, "create", FALSE))
    /\ UNCHANGED <<coordinatorVars, VERIFICATION_CODE, serverVars, active, profile, link,
                   enrolHist, pre, seen>>

\* ===================================================================
\* update: the symlink flip, activation, commit and rollback
\* ===================================================================

\* get_secrets, lines 311 and 321: create_generation returned Ok;
\* let _ = remove_file("/etc/yeet/secret").
FlipRemove ==
    /\ pc = "flip_remove"
    /\ link' = {}
    /\ pc' = "flip_symlink"
    /\ trace' = Step(trace, "create", TRUE)
    /\ UNCHANGED <<coordinatorVars, VERIFICATION_CODE, serverVars, active, profile, dirs, u,
                   enrolHist, pre, seen>>

\* get_secrets, lines 322-324: symlink(&generation, "/etc/yeet/secret")?, and
\* on Ok update reads next_gen (line 151).
FlipSymlink ==
    /\ pc = "flip_symlink"
    /\ \/ \* symlink(..)? fails: get_secrets returns the error
          /\ ReturnErr(Step(trace, "flip", FALSE))
          /\ UNCHANGED <<link, seen>>
       \/ /\ link = {}
          /\ link' = {u.generation}
          /\ u' = [u EXCEPT !.next_gen = {u.generation}]
          /\ seen' = seen \cup {u.generation}
          /\ pc' = "set_profile"
          /\ trace' = Step(trace, "flip", TRUE)
    /\ UNCHANGED <<coordinatorVars, VERIFICATION_CODE, serverVars, active, profile, dirs, enrolHist, pre>>

\* set_system_profile, lines 362-376, as called by activate (line 391):
\* nix-env --profile .. --set store_path; on failure activate returns at once.
SetSystemProfile ==
    /\ pc = "set_profile"
    /\ \/ /\ u' = [u EXCEPT !.activation_err = TRUE]
          /\ pc' = "active_check"
          /\ trace' = Step(trace, "profile", FALSE)
          /\ UNCHANGED profile
       \/ /\ profile' = u.version
          /\ trace' = Step([trace EXCEPT !.ranProfile = TRUE], "profile", TRUE)
          /\ pc' = "script"
          /\ UNCHANGED u
    /\ UNCHANGED <<coordinatorVars, VERIFICATION_CODE, serverVars, active, link, dirs, enrolHist, pre, seen>>

\* activate, lines 392-396: spawn()?.wait()? the activation entry point.  The
\* ExitStatus that wait() returns is dropped: activate returns Ok whatever the
\* exit code.  The script may or may not have switched the active version,
\* whatever its exit code.
Activate ==
    /\ pc = "script"
    /\ pc' = "active_check"
    /\ \/ \* spawn or wait fails
          /\ u' = [u EXCEPT !.activation_err = TRUE]
          /\ trace' = Step(trace, "script", FALSE)
          /\ UNCHANGED active
       \/ \E exit \in {"zero", "nonzero"}, switched \in BOOLEAN :
          /\ active' = IF switched THEN u.version ELSE active
          /\ u' = [u EXCEPT !.activation_err = FALSE]
          /\ trace' = Step([trace EXCEPT !.ranScript = TRUE, !.exit = exit],
                           "script", exit = "zero")
    /\ UNCHANGED <<coordinatorVars, VERIFICATION_CODE, serverVars, profile, link, dirs, enrolHist, pre, seen>>

\* ActiveCheck without the comparison of line 155: whatever version is
\* active, update takes the commit branch.
ActiveCheck_CommitsUnchecked ==
    /\ pc = "active_check"
    /\ \/ ReturnErr(Step(trace, "read", FALSE))
       \/ /\ pc' = "gc"
          /\ trace' = Step(trace, "read", TRUE)
          /\ UNCHANGED u
    /\ UNCHANGED <<coordinatorVars, VERIFICATION_CODE, serverVars, hostVars, enrolHist, pre, seen>>

\* update, line 155: get_active_version()? != version.store_path.
ActiveCheck ==
    /\ pc = "active_check"
    /\ \/ \* get_active_version()? fails: update returns, nothing is undone
          ReturnErr(Step(trace, "read", FALSE))
       \/ /\ active # u.version
          /\ pc' = "restore_remove"
          /\ trace' = Step([trace EXCEPT !.mismatch = TRUE], "read", TRUE)
          /\ UNCHANGED u
       \/ /\ active = u.version
          /\ pc' = "gc"
          /\ trace' = Step(trace, "read", TRUE)
          /\ UNCHANGED u
    /\ UNCHANGED <<coordinatorVars, VERIFICATION_CODE, serverVars, hostVars, enrolHist, pre, seen>>

\* update, lines 157-158: if there was a link before, remove the present one.
RestoreRemove ==
    /\ pc = "restore_remove"
    /\ IF u.current_gen # {}
         THEN /\ link' = {}
              /\ pc' = "restore_symlink"
         ELSE /\ pc' = "delete_next"
              /\ UNCHANGED link
    /\ UNCHANGED <<coordinatorVars, VERIFICATION_CODE, serverVars, active, profile, dirs, u,
                   enrolHist, updateHist>>

\* update, line 159: symlink(current_gen, "/etc/yeet/secret")?.
RestoreSymlink ==
    /\ pc = "restore_symlink"
    /\ \/ /\ ReturnErr(Step(trace, "rollback", FALSE))
          /\ UNCHANGED link
       \/ /\ link = {}
          /\ link' = u.current_gen
          /\ pc' = "delete_next"
          /\ UNCHANGED <<u, trace>>
    /\ UNCHANGED <<coordinatorVars, VERIFICATION_CODE, serverVars, active, profile, dirs,
                   enrolHist, pre, seen>>

\* update, lines 162-165: remove_dir_all(&next_gen)? when next_gen was read,
\* then activation_err?; with no error left update goes on to notify_all.
DeleteNext ==
    /\ pc = "delete_next"
    /\ \/ \* remove_dir_all(&next_gen)? fails (always, if there is no such directory)
          /\ u.next_gen # {}
          /\ ReturnErr(Step(trace, "rollback", FALSE))
          /\ UNCHANGED dirs
       \/ /\ u.next_gen \subseteq DOMAIN dirs
          /\ dirs' = [n \in DOMAIN dirs \ u.next_gen |-> dirs[n]]
          /\ IF u.activation_err
               THEN ReturnErr(Step(trace, "rollback", TRUE))
               ELSE /\ pc' = "notify"
                    /\ trace' = Step(trace, "rollback", TRUE)
                    /\ UNCHANGED u
    /\ UNCHANGED <<coordinatorVars, VERIFICATION_CODE, serverVars, active, profile, link,
                   enrolHist, pre, seen>>

\* GarbageCollect with the test of line 184 inverted: the entry named like
\* next_gen is the one removed.
GarbageCollect_RemovesNamed ==
    /\ pc = "gc"
    /\ dirs' = IF u.next_gen = {} THEN dirs
               ELSE [n \in DOMAIN dirs \ u.next_gen |-> dirs[n]]
    /\ trace' = Step([trace EXCEPT !.committed = TRUE], "gc", TRUE)
    /\ pc' = "notify"
    /\ UNCHANGED <<coordinatorVars, VERIFICATION_CODE, serverVars, active, profile, link, u,
                   enrolHist, pre, seen>>

\* remove_all_dirs_unless, lines 178-191, as called by update (lines 167-172):
\* every entry of the secret root but the one named like next_gen is removed.
GarbageCollect ==
    /\ pc = "gc"
    /\ dirs' = IF u.next_gen = {} THEN dirs
               ELSE [n \in DOMAIN dirs \cap u.next_gen |-> dirs[n]]
    /\ trace' = Step([trace EXCEPT !.committed = TRUE], "gc", TRUE)
    /\ pc' = "notify"
    /\ UNCHANGED <<coordinatorVars, VERIFICATION_CODE, serverVars, active, profile, link, u,
                   enrolHist, pre, seen>>

\* update, lines 174-175: notification::notify_all()?, then Ok(()); back in
\* agent_loop the agent sleeps and polls again.
Notify ==
    /\ pc = "notify"
    /\ \/ ReturnErr(trace)
       \/ /\ pc' = "sleep"
          /\ u' = NoFrame
          /\ trace' = [trace EXCEPT !.ret = "Ok"]
    /\ UNCHANGED <<coordinatorVars, VERIFICATION_CODE, serverVars, hostVars, enrolHist, pre, seen>>

\* The agent process is killed while update() is between the return of
\* get_secrets that flipped the link (line 150) and the return of activate
\* (line 153), and is started again: what update() held in memory
\* (current_gen, the code of the OnceLock) is lost, what is on disk stays,
\* and agent_loop begins at the enrollment check.
Interrupt ==
    /\ pc \in {"set_profile", "script"}
    /\ u.next_gen # {}
    /\ u.next_gen # u.current_gen
    /\ pc' = "verify"
    /\ VERIFICATION_CODE' = NoCode
    /\ u' = NoFrame
    /\ trace' = [trace EXCEPT !.ret = "interrupted"]
    /\ UNCHANGED <<coordinatorVars, serverVars, hostVars, enrolHist, pre, seen>>

\* ===================================================================
\* SecretStore (yeet-server/src/secret_store.rs)
\* ===================================================================

\* The store as the methods see it (&self).
self == [secrets |-> secrets, acl |-> acl]

\* HashMap::insert and HashMap::remove.
insert(map, k, v) == [x \in DOMAIN map \cup {k} |-> IF x = k THEN v ELSE map[x]]
remove(map, k) == [x \in DOMAIN map \ {k} |-> map[x]]
\* acl.entry(secret).or_default(): the entry's list, empty when there was none.
or_default(map, k) == IF k \in DOMAIN map THEN map[k] ELSE <<>>
\* Vec::contains and Vec::retain(|h| h != &host).
contains(list, x) == \E i \in 1..Len(list) : list[i] = x
RECURSIVE retain(_, _)
retain(list, host) ==
    IF list = <<>> THEN <<>>
    ELSE IF Head(list) # host THEN <<Head(list)>> \o retain(Tail(list), host)
    ELSE retain(Tail(list), host)

\* History of plaintexts after a call: add_secret sets what was accepted
\* under the name; the plaintext that goes by a name follows rename_secret
\* and ends with remove_secret.
AcceptedAfter(call) ==
    IF call.op = "add_secret" /\ ~call.ret.err
    THEN [accepted EXCEPT ![call.secret] = {call.payload.text}]
    ELSE accepted

PlaintextAfter(call) ==
    IF call.op = "add_secret" /\ ~call.ret.err
        THEN [plaintext EXCEPT ![call.secret] = {call.payload.text}]
    ELSE IF call.op = "rename_secret" /\ call.secret \in DOMAIN secrets
        THEN [[plaintext EXCEPT ![call.secret] = {}] EXCEPT ![call.new] = plaintext[call.secret]]
    ELSE IF call.op = "remove_secret"
        THEN [plaintext EXCEPT ![call.secret] = {}]
    ELSE plaintext

\* History of removals after a call: a name is "removed" from its
\* remove_secret on, "moved" once rename_secret has brought an ACL entry to
\* it, and "live" again with the next add_access_for on it.
RemovalAfter(call) ==
    IF call.op = "remove_secret"
        THEN [removal EXCEPT ![call.secret] = "removed"]
    ELSE IF call.op = "add_access_for"
        THEN [removal EXCEPT ![call.secret] = "live"]
    ELSE IF call.op = "rename_secret" /\ call.secret \in DOMAIN acl
            /\ removal[call.new] = "removed"
        THEN [removal EXCEPT ![call.new] = "moved"]
    ELSE removal

\* History: one call at a time (&mut self); the call and its result, the
\* store before it, and the history the specification tracks.
Called(call) ==
    /\ last = NoCall
    /\ last' = call
    /\ before' = self
    /\ accepted' = IF tracking = "plaintexts" THEN AcceptedAfter(call) ELSE accepted
    /\ plaintext' = IF tracking = "plaintexts" THEN PlaintextAfter(call) ELSE plaintext
    /\ removal' = IF tracking = "removals" THEN RemovalAfter(call) ELSE removal
    /\ UNCHANGED <<tracking, agentSide, policyVars, procVars>>

\* The caller has the result; the store is ready for the next call.
Return ==
    /\ last # NoCall
    /\ last' = NoCall
    /\ before' = self
    /\ UNCHANGED <<secrets, acl, removal, accepted, plaintext, tracking, agentSide,
                   policyVars, procVars>>

\* get_secret_for without the look at the ACL (lines 72-77 left out).
get_secret_for_NoAclCheck(store, secret, key, host, recipient) ==
    IF secret \notin DOMAIN store.secrets THEN Ok({})
    ELSE LET decrypted == decrypt(key, store.secrets[secret])
         IN  IF decrypted = {} THEN Err
             ELSE Ok({encrypt(recipient, The(decrypted))})

\* get_secret_for that looks for the secret first and answers a missing one
\* with an error.
get_secret_for_ErrWhenMissing(store, secret, key, host, recipient) ==
    IF secret \notin DOMAIN store.secrets THEN Err
    ELSE IF ~(secret \in DOMAIN store.acl /\ contains(store.acl[secret], host))
    THEN Ok({})
    ELSE LET decrypted == decrypt(key, store.secrets[secret])
         IN  IF decrypted = {} THEN Err
             ELSE Ok({encrypt(recipient, The(decrypted))})

\* get_secret_for, lines 65-83: Ok(None) unless the ACL of the secret lists
\* the host and the secret is stored; else the secret decrypted with the
\* store key and encrypted for the recipient.
get_secret_for(store, secret, key, host, recipient) ==
    IF ~(secret \in DOMAIN store.acl /\ contains(store.acl[secret], host))
    THEN Ok({})
    ELSE IF secret \notin DOMAIN store.secrets THEN Ok({})
    ELSE LET decrypted == decrypt(key, store.secrets[secret])
         IN  IF decrypted = {} THEN Err
             ELSE Ok({encrypt(recipient, The(decrypted))})

\* list_secrets, lines 117-119, and get_all_acl, lines 112-114.
list_secrets == DOMAIN secrets
get_all_acl == acl

\* add_secret that stores the payload before it tests it (lines 54 and 55
\* swapped).
add_secret_StoresFirst(secret_name, secret, key) ==
    /\ secrets' = insert(secrets, secret_name, secret)
    /\ Called([NoCall EXCEPT !.op = "add_secret", !.secret = secret_name,
                 !.payload = secret,
                 !.ret = IF decrypt(key, secret) = {} THEN Err ELSE Ok({})])
    /\ UNCHANGED acl

\* add_secret that keeps what is stored under the name (entry().or_insert
\* for the insert of line 55).
add_secret_KeepsFirst(secret_name, secret, key) ==
    /\ IF decrypt(key, secret) = {}
         THEN /\ UNCHANGED secrets
              /\ Called([NoCall EXCEPT !.op = "add_secret", !.secret = secret_name,
                           !.payload = secret, !.ret = Err])
         ELSE /\ secrets' = IF secret_name \in DOMAIN secrets THEN secrets
                            ELSE insert(secrets, secret_name, secret)
              /\ Called([NoCall EXCEPT !.op = "add_secret", !.secret = secret_name,
                           !.payload = secret])
    /\ UNCHANGED acl

\* add_secret, lines 46-57: age::decrypt(store_key, &secret)? and only then
\* the insert, which overwrites by name.
add_secret(secret_name, secret, key) ==
    /\ IF decrypt(key, secret) = {}
         THEN /\ UNCHANGED secrets
              /\ Called([NoCall EXCEPT !.op = "add_secret", !.secret = secret_name,
                           !.payload = secret, !.ret = Err])
         ELSE /\ secrets' = insert(secrets, secret_name, secret)
              /\ Called([NoCall EXCEPT !.op = "add_secret", !.secret = secret_name,
                           !.payload = secret])
    /\ UNCHANGED acl

\* A call of get_secret_for: nothing changes but the history.
GetSecretFor(secret, key, host, recipient) ==
    /\ Called([NoCall EXCEPT !.op = "get_secret_for", !.secret = secret,
                 !.host = host, !.recipient = recipient,
                 !.ret = get_secret_for(self, secret, key, host, recipient)])
    /\ UNCHANGED <<secrets, acl>>

\* The number of host names in all lists of an ACL map.
RECURSIVE Grants(_)
Grants(map) ==
    IF DOMAIN map = {} THEN 0
    ELSE LET k == CHOOSE x \in DOMAIN map : TRUE
         IN  Len(map[k]) + Grants(remove(map, k))

\* add_access_for, lines 86-88: push onto the entry's list.
add_access_for(secret, host) ==
    /\ Grants(acl) < MaxGrants
    /\ acl' = insert(acl, secret, Append(or_default(acl, secret), host))
    /\ Called([NoCall EXCEPT !.op = "add_access_for", !.secret = secret, !.host = host])
    /\ UNCHANGED secrets

\* remove_access_for that takes one grant back (the first occurrence of the
\* host) instead of every one.
remove_access_for_OneGrant(secret, host) ==
    /\ LET list == or_default(acl, secret)
           at == {i \in 1..Len(list) : list[i] = host}
           first == CHOOSE i \in at : \A j \in at : i <= j
       IN  acl' = insert(acl, secret,
                        IF at = {} THEN list
                        ELSE SubSeq(list, 1, first - 1) \o SubSeq(list, first + 1, Len(list)))
    /\ Called([NoCall EXCEPT !.op = "remove_access_for", !.secret = secret, !.host = host])
    /\ UNCHANGED secrets

\* remove_access_for, lines 91-97: retain on the entry's list, which
\* entry().or_default() creates when there was none.
remove_access_for(secret, host) ==
    /\ acl' = insert(acl, secret, retain(or_default(acl, secret), host))
    /\ Called([NoCall EXCEPT !.op = "remove_access_for", !.secret = secret, !.host = host])
    /\ UNCHANGED secrets

\* rename_host that stops at the first entry it renames in each list.
rename_host_FirstOnly(current, new) ==
    /\ acl' = [k \in DOMAIN acl |->
                 [i \in 1..Len(acl[k]) |->
                    IF acl[k][i] = current /\ ~contains(SubSeq(acl[k], 1, i - 1), current)
                    THEN new ELSE acl[k][i]]]
    /\ Called([NoCall EXCEPT !.op = "rename_host", !.host = current, !.new = new])
    /\ UNCHANGED secrets

\* rename_host, lines 122-130: every entry of every list that equals the
\* current name becomes the new name.
rename_host(current, new) ==
    /\ acl' = [k \in DOMAIN acl |->
                 [i \in 1..Len(acl[k]) |->
                    IF acl[k][i] = current THEN new ELSE acl[k][i]]]
    /\ Called([NoCall EXCEPT !.op = "rename_host", !.host = current, !.new = new])
    /\ UNCHANGED secrets

\* remove_host that purges the host from one ACL entry only.
remove_host_OneEntry(host) ==
    /\ acl' = IF \E k \in DOMAIN acl : contains(acl[k], host)
               THEN LET k == CHOOSE x \in DOMAIN acl : contains(acl[x], host)
                    IN  [acl EXCEPT ![k] = retain(acl[k], host)]
               ELSE acl
    /\ Called([NoCall EXCEPT !.op = "remove_host", !.host = host])
    /\ UNCHANGED secrets

\* remove_host, lines 133-138: retain on every list.
remove_host(host) ==
    /\ acl' = [k \in DOMAIN acl |-> retain(acl[k], host)]
    /\ Called([NoCall EXCEPT !.op = "remove_host", !.host = host])
    /\ UNCHANGED secrets

\* rename_secret, lines 141-150: the secret moves if there is one, the ACL
\* entry moves if there is one; either replaces what the new name had.
rename_secret(current, new) ==
    /\ secrets' = IF current \in DOMAIN secrets
                   THEN insert(remove(secrets, current), new, secrets[current])
                   ELSE secrets
    /\ acl' = IF current \in DOMAIN acl
               THEN insert(remove(acl, current), new, acl[current])
               ELSE acl
    /\ Called([NoCall EXCEPT !.op = "rename_secret", !.secret = current, !.new = new])

\* remove_secret that forgets the secret and keeps its ACL entry (line 156
\* left out).
remove_secret_KeepsAcl(secret) ==
    /\ secrets' = remove(secrets, secret)
    /\ Called([NoCall EXCEPT !.op = "remove_secret", !.secret = secret])
    /\ UNCHANGED acl

\* remove_secret, lines 153-157: the secret and its ACL entry go.
remove_secret(secret) ==
    /\ secrets' = remove(secrets, secret)
    /\ acl' = remove(acl, secret)
    /\ Called([NoCall EXCEPT !.op = "remove_secret", !.secret = secret])

\* The calls a client of the store may make, with the store key the
\* coordinator holds.
AddSecret == \E name \in StoreNames, secret \in Payloads : add_secret(name, secret, store_key)
GetSecret ==
    \E s \in StoreNames, h \in Hosts, r \in Recipients : GetSecretFor(s, store_key, h, r)
AddAccess == \E s \in StoreNames, h \in Hosts : add_access_for(s, h)
RemoveAccess == \E s \in StoreNames, h \in Hosts : remove_access_for(s, h)
RenameHost == \E current \in Hosts, new \in Hosts : rename_host(current, new)
RemoveHost == \E h \in Hosts : remove_host(h)
RenameSecret == \E current \in StoreNames, new \in StoreNames : rename_secret(current, new)
RemoveSecret == \E s \in StoreNames : remove_secret(s)

\* ===================================================================
\* PolicyStore (yeet-api/src/auth.rs)
\* ===================================================================

\* History: one call at a time (&mut self), recorded with the store before it.
Asked(call) ==
    /\ asked = NoAsk
    /\ asked' = [call EXCEPT !.before = policy_store]
    /\ UNCHANGED <<agentSide, storeVars, procVars>>

\* The caller has the result; the policy store is ready for the next call.
PolicyReturn ==
    /\ asked # NoAsk
    /\ asked' = NoAsk
    /\ UNCHANGED <<policy_store, agentSide, storeVars, procVars>>

\* get_tags, lines 150-155: the policy's tags, the empty set without a policy.
get_tags(store, owner, action) ==
    IF <<owner, action>> \in DOMAIN store.policies
    THEN store.policies[<<owner, action>>]
    ELSE {}

\* check_permission that asks for ALL of the resource's tags instead of any
\* (is_subset in place of intersection(..).count() > 0).
check_permission_AllTags(store, owner, action, tags) ==
    tags \subseteq get_tags(store, owner, action)

\* check_permission, lines 159-161.
check_permission(store, owner, action, tags) ==
    Cardinality(get_tags(store, owner, action) \cap tags) > 0

\* create_tag, lines 124-128: a fresh uuid joins the known tags.
create_tag ==
    \E tag \in Tags :
        /\ tag \notin policy_store.tags
        /\ \A k \in DOMAIN policy_store.policies : tag \notin policy_store.policies[k]
        /\ policy_store' = [policy_store EXCEPT !.tags = @ \cup {tag}]
        /\ Asked([NoAsk EXCEPT !.op = "create_tag", !.tag = tag])

\* delete_tag that forgets the tag and leaves the policies alone (the loop
\* of lines 133-135 left out).
delete_tag_KnownOnly(tag) ==
    /\ policy_store' = [policy_store EXCEPT !.tags = @ \ {tag}]
    /\ Asked([NoAsk EXCEPT !.op = "delete_tag", !.tag = tag])

\* delete_tag, lines 131-136: the tag leaves the known tags and every policy.
delete_tag(tag) ==
    /\ policy_store' =
         [tags |-> policy_store.tags \ {tag},
          policies |-> [k \in DOMAIN policy_store.policies |->
                          policy_store.policies[k] \ {tag}]]
    /\ Asked([NoAsk EXCEPT !.op = "delete_tag", !.tag = tag])

\* set_policy that adds the tags to the policy the key has (extend in place
\* of insert).
set_policy_Extends(owner, action, tags) ==
    /\ policy_store' =
         [policy_store EXCEPT !.policies =
            insert(@, <<owner, action>>, get_tags(policy_store, owner, action) \cup tags)]
    /\ Asked([NoAsk EXCEPT !.op = "set_policy", !.owner = owner, !.action = action,
                !.tags = tags])

\* set_policy, lines 140-142: HashMap::insert replaces the key's value.
set_policy(owner, action, tags) ==
    /\ policy_store' =
         [policy_store EXCEPT !.policies = insert(@, <<owner, action>>, tags)]
    /\ Asked([NoAsk EXCEPT !.op = "set_policy", !.owner = owner, !.action = action,
                !.tags = tags])

\* delete_policy that also takes the policy's tags out of the known tags.
delete_policy_DeletesTags(owner, action) ==
    /\ policy_store' =
         [tags |-> policy_store.tags \ get_tags(policy_store, owner, action),
          policies |-> remove(policy_store.policies, <<owner, action>>)]
    /\ Asked([NoAsk EXCEPT !.op = "delete_policy", !.owner = owner, !.action = action])

\* delete_policy, lines 145-147: HashMap::remove, which returns the old value.
delete_policy(owner, action) ==
    /\ policy_store' = [policy_store EXCEPT !.policies = remove(@, <<owner, action>>)]
    /\ Asked([NoAsk EXCEPT !.op = "delete_policy", !.owner = owner, !.action = action,
                !.removed = IF <<owner, action>> \in DOMAIN policy_store.policies
                            THEN {policy_store.policies[<<owner, action>>]}
                            ELSE {}])

\* A call of check_permission (&self): nothing changes but the history.
CheckPermission(owner, action, tags) ==
    /\ Asked([NoAsk EXCEPT !.op = "check_permission", !.owner = owner,
                !.action = action, !.tags = tags,
                !.check = check_permission(policy_store, owner, action, tags)])
    /\ UNCHANGED policy_store

\* The calls a client of the policy store may make.
CreateTag == create_tag
DeleteTag == \E tag \in Tags : delete_tag(tag)
SetPolicy == \E owner \in Owners, action \in Actions, tags \in TagSet : set_policy(owner, action, tags)
DeletePolicy == \E owner \in Owners, action \in Actions : delete_policy(owner, action)
CheckPolicy ==
    \E owner \in Owners, action \in Actions, tags \in TagSet :
        CheckPermission(owner, action, tags)

\* enum Secret of auth/action.rs: the actions on secrets a policy can name.
SecretActions ==
    {"Secret::CreateOrUpdate", "Secret::Rename", "Secret::Remove", "Secret::ACL",
     "Secret::ListSecrets"}

\* An administrator gives the identity of the key "user" a policy for an
\* action on secrets.
GrantSecretPolicy == \E action \in SecretActions : set_policy("user", action, {"tag-1"})

\* ===================================================================
\* the coordinator process (yeet-server/src/main.rs, routes/secret.rs)
\* ===================================================================

\* AppState::default(), as far as it is modelled: SecretStore::new().
default == [secrets |-> NoEntries, acl |-> NoEntries]

\* serde_json::to_vec_pretty(&*state), line 161, and serde_json::from_reader,
\* line 56: a document parses when it is whole.
to_vec_pretty(state) == <<"{", state.secrets, state.acl, "}">>
from_reader(bytes) ==
    IF Len(bytes) = 4 /\ bytes[1] = "{" /\ bytes[4] = "}"
    THEN Ok({[secrets |-> bytes[2], acl |-> bytes[3]]})
    ELSE Err

\* DefaultHasher over the document, lines 162-166: a u64 computed from every
\* byte.  The documents of the model get different numbers, none of them
\* the 0 that `hash` starts with.
HostDigit(host) == IF host = "myhost" THEN 1 ELSE IF host = "newhost" THEN 2 ELSE 3
BytesCode(bytes) ==
    (IF bytes.age THEN 1 ELSE 0) + (IF bytes.to = to_public(store_key) THEN 2 ELSE 0)
        + (IF bytes.text = "secret_text" THEN 4 ELSE 8)
RECURSIVE ListCode(_)
ListCode(list) ==
    IF list = <<>> THEN 1
    ELSE 4 * ListCode(SubSeq(list, 1, Len(list) - 1)) + HostDigit(list[Len(list)])
RECURSIVE SecretsCode(_)
SecretsCode(map) ==
    IF DOMAIN map = {} THEN 0
    ELSE LET k == CHOOSE x \in DOMAIN map : TRUE
         IN  (IF k = "my_secret" THEN 1 ELSE 16) * BytesCode(map[k])
                 + SecretsCode(remove(map, k))
RECURSIVE AclCode(_)
AclCode(map) ==
    IF DOMAIN map = {} THEN 0
    ELSE LET k == CHOOSE x \in DOMAIN map : TRUE
         IN  (IF k = "my_secret" THEN 1 ELSE 2048) * ListCode(map[k])
                 + AclCode(remove(map, k))
finish(data) == 1 + SecretsCode(data[2]) + 256 * AclCode(data[3])

\* let state_location = env::var("YEET_STATE").unwrap_or("state.json"), line 145.
state_location == IF YEET_STATE = {} THEN "state.json" ELSE The(YEET_STATE)

\* The process stops (a kill, a power cut): what is in memory is gone, the
\* files stay as they are.
Crash ==
    /\ main = "up"
    /\ main' = "down"
    /\ secrets' = NoEntries
    /\ acl' = NoEntries
    /\ last' = NoCall
    /\ before' = default
    /\ save' = NoSave
    /\ guard' = "free"
    /\ request' = NoRequest
    /\ peer' = NoPeer
    /\ snapshots' = [snapshots EXCEPT !.loaded = {}, !.task = {}]
    /\ UNCHANGED <<YEET_STATE, files, removal, accepted, plaintext, tracking,
                   agentSide, policyVars>>

\* main, lines 54-74, started with YEET_STATE = env: File::open("state.json")
\* gives the default state when it fails and the parsed state otherwise,
\* `expect` panics when the file does not parse; then save_state is spawned.
Startup(env) ==
    LET parsed == IF files["state.json"] = {} THEN Ok({default})
                  ELSE from_reader(The(files["state.json"]))
    IN  /\ main = "down"
        /\ YEET_STATE' = env
        /\ IF parsed.err
             THEN /\ main' = "panicked"
                  /\ UNCHANGED <<secrets, acl, before, save, snapshots, peer>>
             ELSE /\ main' = "up"
                  /\ secrets' = The(parsed.val).secrets
                  /\ acl' = The(parsed.val).acl
                  /\ before' = The(parsed.val)
                  /\ save' = [NoSave EXCEPT !.pc = "open"]
                  /\ snapshots' = [snapshots EXCEPT !.loaded = parsed.val, !.task = {}]
                  /\ peer' = [NoPeer EXCEPT !.committed = The(parsed.val)]
        /\ UNCHANGED <<files, guard, request, last, removal, accepted, plaintext,
                       tracking, agentSide, policyVars>>

\* save_state, lines 145-156: OpenOptions .create(true).truncate(false) makes
\* an empty file where there is none.
Open ==
    /\ main = "up"
    /\ save.pc = "open"
    /\ files' = IF files[state_location] = {}
                 THEN [files EXCEPT ![state_location] = {<<>>}]
                 ELSE files
    /\ save' = [save EXCEPT !.pc = "tick"]
    /\ UNCHANGED <<main, YEET_STATE, guard, request, peer, snapshots, storeVars,
                   agentSide, policyVars>>

\* A tick that truncates and writes whether or not the hash differs (the
\* test of line 165 left out).
Tick_AlwaysWrites ==
    /\ main = "up"
    /\ save.pc = "tick"
    /\ guard # "write"
    /\ LET data == to_vec_pretty(self)
       IN  /\ save' = [pc |-> "truncate", hash |-> finish(data), data |-> data]
           /\ guard' = "read"
    /\ UNCHANGED <<main, YEET_STATE, files, request, peer, snapshots, storeVars,
                   agentSide, policyVars>>

\* A tick that writes on the first turn of the loop only (the test of line
\* 165 as `hash == 0`).
Tick_WritesOnce ==
    /\ main = "up"
    /\ save.pc = "tick"
    /\ guard # "write"
    /\ LET data == to_vec_pretty(self)
       IN  IF save.hash = 0
           THEN /\ save' = [pc |-> "truncate", hash |-> finish(data), data |-> data]
                /\ guard' = "read"
           ELSE UNCHANGED <<save, guard>>
    /\ UNCHANGED <<main, YEET_STATE, files, request, peer, snapshots, storeVars,
                   agentSide, policyVars>>

\* A tick that reads AppState without the lock (`state.read()` of line 160
\* left out): it serializes whatever is there.
Tick_ReadsUnlocked ==
    /\ main = "up"
    /\ save.pc = "tick"
    /\ LET data == to_vec_pretty(self)
       IN  IF save.hash # finish(data)
           THEN /\ save' = [pc |-> "truncate", hash |-> finish(data), data |-> data]
                /\ guard' = "read"
           ELSE UNCHANGED <<save, guard>>
    /\ UNCHANGED <<main, YEET_STATE, files, request, peer, snapshots, storeVars,
                   agentSide, policyVars>>

\* save_state, lines 159-166: after the tick, state.read(), serialize, hash;
\* when the hash is the one kept the iteration ends and the guard drops.
Tick ==
    /\ main = "up"
    /\ save.pc = "tick"
    /\ guard # "write"
    /\ LET data == to_vec_pretty(self)
       IN  IF save.hash # finish(data)
           THEN /\ save' = [pc |-> "truncate", hash |-> finish(data), data |-> data]
                /\ guard' = "read"
           ELSE UNCHANGED <<save, guard>>
    /\ UNCHANGED <<main, YEET_STATE, files, request, peer, snapshots, storeVars,
                   agentSide, policyVars>>

\* save_state, line 167: file.set_len(0).
Truncate ==
    /\ main = "up"
    /\ save.pc = "truncate"
    /\ files' = [files EXCEPT ![state_location] = {<<>>}]
    /\ save' = [save EXCEPT !.pc = "write"]
    /\ UNCHANGED <<main, YEET_STATE, guard, request, peer, snapshots, storeVars,
                   agentSide, policyVars>>

\* save_state, lines 168-171: file.write_all_at(&data, 0), a piece at a time;
\* after the last piece the loop body ends and the read guard drops.
Write ==
    /\ main = "up"
    /\ save.pc = "write"
    /\ LET written == The(files[state_location])
           now == Append(written, save.data[Len(written) + 1])
       IN  /\ files' = [files EXCEPT ![state_location] = {now}]
           /\ IF now = save.data
                THEN /\ save' = [save EXCEPT !.pc = "tick"]
                     /\ guard' = "free"
                     /\ snapshots' = [snapshots EXCEPT !.task = {save.data},
                                        !.held = @ \cup {state_location}]
                ELSE UNCHANGED <<save, guard, snapshots>>
    /\ UNCHANGED <<main, YEET_STATE, request, peer, storeVars, agentSide, policyVars>>

\* HttpSig and VerifiedJson (httpsig.rs): the extractors run before the
\* handler's body and reject a request whose signature does not verify.
verify(req) == req.signed
\* AppState::auth_admin (state.rs): the key is one of the admin keys.
admin_keys == {"admin"}
auth_admin(key) == key \in admin_keys

\* A request for one of the mutating secret routes arrives and the
\* extractors run.
Receive(req) ==
    /\ main = "up"
    /\ request.stage \in {"none", "refused", "done"}
    /\ req.allow => Grants(acl) < MaxGrants
    /\ request' = IF verify(req)
                   THEN [req EXCEPT !.stage = "verified", !.before = self]
                   ELSE [req EXCEPT !.stage = "refused", !.status = "401", !.before = self]
    /\ UNCHANGED <<main, YEET_STATE, files, save, guard, snapshots, peer, storeVars,
                   agentSide, policyVars>>

\* A handler that goes on whatever auth_admin returns (the `?` of
\* `state.auth_admin(&key)?` left out).
Enter_IgnoresAuth ==
    /\ main = "up"
    /\ request.stage = "verified"
    /\ guard = "free"
    /\ request' = [request EXCEPT !.stage = "authorized"]
    /\ guard' = "write"
    /\ UNCHANGED <<main, YEET_STATE, files, save, snapshots, peer, storeVars,
                   agentSide, policyVars>>

\* add_secret, rename_secret, remove_secret, set_acl, their first two lines:
\* state.write_arc() waits for the lock; state.auth_admin(&key)? returns the
\* error, which drops the guard.
Enter ==
    /\ main = "up"
    /\ request.stage = "verified"
    /\ guard = "free"
    /\ IF auth_admin(request.key)
         THEN /\ request' = [request EXCEPT !.stage = "authorized"]
              /\ guard' = "write"
         ELSE /\ request' = [request EXCEPT !.stage = "refused", !.status = "403"]
              /\ UNCHANGED guard
    /\ UNCHANGED <<main, YEET_STATE, files, save, snapshots, peer, storeVars,
                   agentSide, policyVars>>

\* The handler's call on the state: lines 18, 32, 43, 54-61.
Mutate ==
    /\ main = "up"
    /\ request.stage = "authorized"
    /\ IF request.route = "/secret/add"
         THEN add_secret(request.name, request.secret, store_key)
       ELSE IF request.route = "/secret/rename"
         THEN rename_secret(request.name, request.new_name)
       ELSE IF request.route = "/secret/remove"
         THEN remove_secret(request.name)
       ELSE IF request.allow
         THEN add_access_for(request.name, request.host)
       ELSE remove_access_for(request.name, request.host)

\* The handler returns (add_secret's error with `?`, otherwise
\* Ok(StatusCode::OK)) and the write guard drops.
Respond ==
    /\ main = "up"
    /\ request.stage = "authorized"
    /\ last # NoCall
    /\ request' = [NoRequest EXCEPT !.stage = "done", !.route = request.route,
                     !.key = request.key, !.signed = request.signed,
                     !.status = IF last.ret.err THEN "500" ELSE "200"]
    /\ guard' = "free"
    /\ last' = NoCall
    /\ before' = self
    /\ peer' = [peer EXCEPT !.committed = self]
    /\ UNCHANGED <<main, YEET_STATE, files, save, snapshots, secrets, acl,
                   removal, accepted, plaintext, tracking, agentSide, policyVars>>

\* A second request, POST /secret/remove signed by an admin key, arrives
\* while the first may be under way, and passes the extractors.
PeerReceive(name) ==
    /\ main = "up"
    /\ peer.stage = "none"
    /\ peer' = [peer EXCEPT !.stage = "verified", !.name = name]
    /\ UNCHANGED <<main, YEET_STATE, files, save, guard, request, snapshots, storeVars,
                   agentSide, policyVars>>

\* remove_secret of routes/secret.rs, lines 41-42: state.write_arc() waits
\* for the lock; state.auth_admin(&key)? lets the admin key through.
PeerEnter ==
    /\ main = "up"
    /\ peer.stage = "verified"
    /\ guard = "free"
    /\ guard' = "write"
    /\ peer' = [peer EXCEPT !.stage = "entered"]
    /\ UNCHANGED <<main, YEET_STATE, files, save, request, snapshots, storeVars,
                   agentSide, policyVars>>

\* SecretStore::remove_secret, line 155, called at line 43 of the route:
\* self.secrets.remove(name).
PeerRemoveSecret ==
    /\ main = "up"
    /\ peer.stage = "entered"
    /\ secrets' = remove(secrets, peer.name)
    /\ peer' = [peer EXCEPT !.stage = "halfway"]
    /\ UNCHANGED <<main, YEET_STATE, files, save, guard, request, snapshots, acl, last,
                   before, removal, accepted, plaintext, tracking, agentSide, policyVars>>

\* SecretStore::remove_secret, line 156: self.acl.remove(name).
PeerRemoveAcl ==
    /\ main = "up"
    /\ peer.stage = "halfway"
    /\ acl' = remove(acl, peer.name)
    /\ peer' = [peer EXCEPT !.stage = "removed"]
    /\ UNCHANGED <<main, YEET_STATE, files, save, guard, request, snapshots, secrets, last,
                   before, removal, accepted, plaintext, tracking, agentSide, policyVars>>

\* The second handler returns Ok(StatusCode::OK) and its write guard drops.
PeerRespond ==
    /\ main = "up"
    /\ peer.stage = "removed"
    /\ guard' = "free"
    /\ peer' = [NoPeer EXCEPT !.committed = self]
    /\ UNCHANGED <<main, YEET_STATE, files, save, request, snapshots, storeVars,
                   agentSide, policyVars>>

\* The requests the routes are given: every route, both keys, with and
\* without a valid signature, on secrets of one host.
AddSecretRequest ==
    {[NoRequest EXCEPT !.route = "/secret/add", !.name = n, !.secret = b] :
        n \in StoreNames, b \in {encrypt(to_public(store_key), "secret_text"), Raw("secret_text")}}
RenameSecretRequest ==
    {[NoRequest EXCEPT !.route = "/secret/rename", !.name = n, !.new_name = m] :
        n \in StoreNames, m \in StoreNames}
RemoveSecretRequest ==
    {[NoRequest EXCEPT !.route = "/secret/remove", !.name = n] : n \in StoreNames}
AclSecretRequest ==
    {[NoRequest EXCEPT !.route = "/secret/acl", !.name = n, !.host = "myhost", !.allow = a] :
        n \in StoreNames, a \in BOOLEAN}
Requests ==
    {[r EXCEPT !.key = k, !.signed = v] :
        r \in AddSecretRequest \cup RenameSecretRequest \cup RemoveSecretRequest
                \cup AclSecretRequest,
        k \in Keys, v \in BOOLEAN}
\* The requests that change what is to be persisted: an admin adds and
\* removes one secret.
AdminRequests ==
    {r \in Requests : r.signed /\ r.key = "admin" /\ r.name = "my_secret"
                        /\ r.route \in {"/secret/add", "/secret/remove"}
                        /\ (r.route = "/secret/add" => r.secret.age)}

\* ===================================================================
\* the specification
\* ===================================================================
Next ==
    \/ IsHostVerified
    \/ AddVerificationAttempt
    \/ Retry
    \/ Accept
    \/ HostRemove
    \/ Check
    \/ Sleep
    \/ Download
    \/ Realise
    \/ ReadManifest
    \/ FetchSecrets
    \/ CreateDir
    \/ FileCreate
    \/ FileMode
    \/ FileWrite
    \/ FileChown
    \/ Cleanup
    \/ FlipRemove
    \/ FlipSymlink
    \/ SetSystemProfile
    \/ Activate
    \/ ActiveCheck
    \/ RestoreRemove
    \/ RestoreSymlink
    \/ DeleteNext
    \/ GarbageCollect
    \/ Notify

Spec == Init /\ [][Next]_vars

\* The update procedure reads and writes nothing of the enrollment (the
\* cached code, the coordinator's host registry), and the enrollment nothing
\* of the host state.  The two are therefore also specified apart, each with
\* the other's environment held still, which keeps the state spaces small.

\* The agent of a host that is and stays enrolled: polling and updates.
InitUpdate == Init /\ verified /\ tracking = "none"

NextUpdate ==
    \/ IsHostVerified
    \/ Retry
    \/ Check
    \/ Sleep
    \/ Download
    \/ Realise
    \/ ReadManifest
    \/ FetchSecrets
    \/ CreateDir
    \/ FileCreate
    \/ FileMode
    \/ FileWrite
    \/ FileChown
    \/ Cleanup
    \/ FlipRemove
    \/ FlipSymlink
    \/ SetSystemProfile
    \/ Activate
    \/ ActiveCheck
    \/ RestoreRemove
    \/ RestoreSymlink
    \/ DeleteNext
    \/ GarbageCollect
    \/ Notify

SpecUpdate == InitUpdate /\ [][NextUpdate]_vars

\* Updates of artifacts whose manifest, if there is one, declares no secret,
\* on an agent that can be killed between the flip and the end of the
\* activation and started again.
NextRestart ==
    \/ IsHostVerified
    \/ Retry
    \/ Check
    \/ Sleep
    \/ Download
    \/ Realise
    \/ ReadManifest /\ (pc' = "fetch" => u'.secrets = <<>>)
    \/ FetchSecrets
    \/ CreateDir
    \/ Cleanup
    \/ FlipRemove
    \/ FlipSymlink
    \/ SetSystemProfile
    \/ Activate
    \/ ActiveCheck
    \/ RestoreRemove
    \/ RestoreSymlink
    \/ DeleteNext
    \/ GarbageCollect
    \/ Notify
    \/ Interrupt

SpecRestart == InitUpdate /\ [][NextRestart]_vars

\* The agent while the coordinator asks for no new version: enrollment,
\* approval, removal and polls answered Nothing or Detach.
NextEnrol ==
    \/ IsHostVerified
    \/ AddVerificationAttempt
    \/ Retry
    \/ Accept
    \/ HostRemove
    \/ Check /\ pc' # "download"
    \/ Sleep

SpecEnrol == Init /\ [][NextEnrol]_vars

\* The agent with enrollment, polling and updates together, for artifacts
\* that carry no secret manifest.  The retry harness sleeps its constant
\* delay on a timer and then invokes agent_loop again: Retry is weakly fair.
InitLoop == Init /\ tracking = "none"

NextLoop ==
    \/ IsHostVerified
    \/ AddVerificationAttempt
    \/ Retry
    \/ Accept
    \/ HostRemove
    \/ Check
    \/ Sleep
    \/ Download
    \/ Realise
    \/ ReadManifest /\ pc' # "fetch"
    \/ SetSystemProfile
    \/ Activate
    \/ ActiveCheck
    \/ RestoreRemove
    \/ RestoreSymlink
    \/ DeleteNext
    \/ GarbageCollect
    \/ Notify

SpecLoop == InitLoop /\ [][NextLoop]_vars /\ WF_vars(Retry)

\* Enrollment and polls under fairness: the retry harness re-invokes
\* agent_loop after its delay, the sleep between polls ends, an enrollment
\* check that can get an answer which does not end the iteration eventually
\* gets it, and the poll of an agent eventually fails (the coordinator does
\* not go on answering a host it removed).
SpecEnrolFair ==
    /\ InitLoop
    /\ [][NextEnrol]_vars
    /\ WF_vars(Retry)
    /\ WF_vars(Sleep)
    /\ SF_vars(IsHostVerified /\ pc' # "retry")
    /\ SF_vars(Check /\ pc' = "retry")

\* The secret store under any sequence of calls, the agent standing still.
InitStore == Init /\ verified /\ link = {} /\ tracking = "none"

NextStore ==
    \/ AddSecret
    \/ GetSecret
    \/ AddAccess
    \/ RemoveAccess
    \/ RenameHost
    \/ RemoveHost
    \/ RenameSecret
    \/ RemoveSecret
    \/ Return

SpecStore == InitStore /\ [][NextStore]_vars

\* The same with the history of plaintexts kept, and with the history of
\* removals kept.
InitPlaintexts == Init /\ verified /\ link = {} /\ tracking = "plaintexts"
SpecPlaintexts == InitPlaintexts /\ [][NextStore]_vars
InitRemovals == Init /\ verified /\ link = {} /\ tracking = "removals"
SpecRemovals == InitRemovals /\ [][NextStore]_vars

\* The policy store under any sequence of calls, everything else standing
\* still.
InitPolicy == Init /\ verified /\ link = {} /\ tracking = "none"

NextPolicy ==
    \/ CreateTag
    \/ DeleteTag
    \/ SetPolicy
    \/ DeletePolicy
    \/ CheckPolicy
    \/ PolicyReturn

SpecPolicy == InitPolicy /\ [][NextPolicy]_vars

\* The secret routes of a running coordinator, one request at a time, the
\* save task left out.
InitRoutes == Init /\ verified /\ link = {} /\ tracking = "none"

NextRoutes ==
    \/ Startup({})
    \/ \E req \in Requests : Receive(req)
    \/ Enter
    \/ Mutate
    \/ Respond

SpecRoutes == InitRoutes /\ [][NextRoutes]_vars

\* The secret routes while policies for actions on secrets are given out, for
\* requests about one secret name whose signature verifies.
NextAuthz ==
    \/ Startup({})
    \/ GrantSecretPolicy
    \/ PolicyReturn
    \/ \E req \in Requests : req.signed /\ req.name = "my_secret" /\ Receive(req)
    \/ Enter
    \/ Mutate
    \/ Respond

SpecAuthz == InitRoutes /\ [][NextAuthz]_vars

\* A coordinator that stays up, for every setting of YEET_STATE.  The
\* interval fires every 500 ms and the lock is fair to a waiting reader, so a
\* tick that finds something to write comes about even while handlers keep
\* taking the write guard: Tick is strongly fair.  The save task and a
\* handler that has the guard run on: Open, Truncate, Write, Mutate and
\* Respond are weakly fair.
NextSave ==
    \/ \E env \in {{}} \cup {{p} : p \in Paths} : Startup(env)
    \/ Open
    \/ Tick
    \/ Truncate
    \/ Write
    \/ \E req \in AdminRequests : Receive(req)
    \/ Enter
    \/ Mutate
    \/ Respond

SpecSaveFair ==
    /\ InitRoutes
    /\ [][NextSave]_vars
    /\ SF_vars(Tick)
    /\ WF_vars(Open)
    /\ WF_vars(Truncate)
    /\ WF_vars(Write)
    /\ WF_vars(Mutate)
    /\ WF_vars(Respond)

\* Two handlers and the save task of a running coordinator beside each
\* other: requests of an admin on one secret name, and removals of it.
NextLock ==
    \/ Startup({})
    \/ Open
    \/ Tick
    \/ Truncate
    \/ Write
    \/ \E req \in Requests :
          req.signed /\ req.key = "admin" /\ req.name = "my_secret" /\ Receive(req)
    \/ Enter
    \/ Mutate
    \/ Respond
    \/ PeerReceive("my_secret")
    \/ PeerEnter
    \/ PeerRemoveSecret
    \/ PeerRemoveAcl
    \/ PeerRespond

SpecLock == InitRoutes /\ [][NextLock]_vars

\* The coordinator with its save task across crashes and restarts, for
\* every setting of YEET_STATE.
NextPersist ==
    \/ \E env \in {{}} \cup {{p} : p \in Paths} : Startup(env)
    \/ Crash
    \/ Open
    \/ Tick
    \/ Truncate
    \/ Write
    \/ \E req \in AdminRequests : Receive(req)
    \/ Enter
    \/ Mutate
    \/ Respond

SpecPersist == InitRoutes /\ [][NextPersist]_vars

TypeOK ==
    /\ link \subseteq 0..MaxGen
    /\ Cardinality(link) <= 1
    /\ DOMAIN dirs \subseteq 0..MaxGen
    /\ active \in StorePaths
    /\ profile \in StorePaths
    /\ posts \in 0..MaxPosts

\* ===================================================================
\* properties of the update procedure (checked under SpecUpdate)
\* ===================================================================

\* update() has returned, and no later update has begun.
UpdateReturned == trace.ret \in {"Ok", "Err"}
\* A failed update: a run of update() that does not end with the active
\* version equal to the requested store path.
UpdateFailed == UpdateReturned /\ active # trace.version
\* A successful switch: update() ends with the active version equal to the
\* requested store path.
UpdateSucceeded == UpdateReturned /\ active = trace.version

\* C1: in every reachable state the secret symlink is absent or points at a
\* generation directory that exists.
C1_SymlinkNeverDangles == link \subseteq DOMAIN dirs

\* C2: after any failed update the active version is unchanged and the
\* secret symlink has the target it had before the update (absent iff it was
\* absent before).
C2_FailedUpdateRestores ==
    UpdateFailed => (active = pre.active /\ link = pre.link)

C4_ProfileRolledBack ==
    UpdateFailed => profile = pre.profile

\* The declared secret files of the running update are all complete in the
\* generation being staged.
DeclaredComplete ==
    /\ u.generation \in DOMAIN dirs
    /\ \A i \in 1..Len(u.secrets) : <<u.secrets[i], Complete>> \in dirs[u.generation]

C6_MissingSecretAbortsBeforeWriting ==
    trace.fetchFailed =>
        /\ trace.ret = "Err"
        /\ dirs = pre.dirs
        /\ link = pre.link
        /\ trace.staged = {}
        /\ ~trace.ranProfile /\ ~trace.ranScript
        /\ profile = pre.profile /\ active = pre.active

\* C6 witness: an update has returned after a failed fetch.
C6_Witness ==
    /\ trace.fetchFailed
    /\ trace.ret = "Err"
    /\ trace.manifest
    /\ pc = "retry"

\* C7: after any failed update the generation directory this update staged
\* no longer exists.
C7_FailedUpdateLeavesNoGeneration ==
    UpdateFailed => trace.staged \cap DOMAIN dirs = {}

\* C8: the generation number that becomes current in a successful switch is
\* strictly greater than every generation number that was current or staged
\* at any earlier time.
C8_GenerationNumbersNeverReused ==
    (trace.committed /\ trace.staged # {}) =>
        \A g \in pre.seen : The(trace.staged) > g

\* C9: whenever the activation entry point exits non-zero, or the active
\* version differs from the requested store path after activation, update()
\* returns an error.
C9_ActivationFailureSurfaced ==
    (UpdateReturned /\ (trace.exit = "nonzero" \/ trace.mismatch))
        => trace.ret = "Err"

\* ===================================================================
\* properties of the enrollment (checked under SpecEnrol)
\* ===================================================================

\* C10 (as claimed): while the agent has not been verified, it submits at
\* most one verification attempt, and every fail-fast iteration reports the
\* code the first attempt returned.
C10_AtMostOneAttempt ==
    ~sawVerified =>
        /\ posts <= 1
        /\ report # NoCode => report = firstCode

\* C10 (amended): at most one verification attempt is answered with a code;
\* once a code is cached no further attempt is submitted, the cached code
\* never changes, and every fail-fast iteration reports that code.
C10_AtMostOneAnsweredAttempt ==
    /\ answered <= 1
    /\ ~latePost
    /\ VERIFICATION_CODE # NoCode => VERIFICATION_CODE = firstCode
    /\ report # NoCode => report = firstCode
    /\ (answered = 1) = (VERIFICATION_CODE # NoCode)

\* C10 witness: after an attempt whose POST failed and one that was answered,
\* an unverified iteration has failed fast with the cached code.
C10_Witness ==
    /\ ~sawVerified
    /\ posts = 2
    /\ answered = 1
    /\ report = VERIFICATION_CODE
    /\ report # NoCode
    /\ pc = "retry"
\* ===================================================================
\* properties of the retry harness (checked under SpecLoop)
\* ===================================================================

\* The agent is inside the polling loop of agent_loop (lines 104-118), an
\* update included.
Polling == pc \notin {"verify", "attempt", "retry"}

\* A step in which an iteration fails: the enrollment check errs or finds
\* the host unverified and bails, the attempt ends (it always bails), the
\* poll /system/check errs, or update() returns Err.
IterationFails ==
    \/ pc = "verify" /\ pc' \notin {"verify", "check", "attempt"}
    \/ pc = "attempt" /\ pc' # "attempt"
    \/ pc = "check" /\ pc' \notin {"check", "sleep", "download"}
    \/ trace.ret = "running" /\ trace'.ret = "Err"

\* C11: every failure inside one iteration of the agent goes to the retry
\* harness; the harness re-enters at the enrollment check, and does so
\* eventually after every failure (the agent does not terminate); polling is
\* entered only from an enrollment check that found the host verified.
C11_FailuresReenterAtEnrollmentCheck ==
    /\ [][IterationFails => pc' = "retry"]_vars
    /\ [][pc = "retry" /\ pc' # "retry" => pc' = "verify"]_vars
    /\ [][~Polling /\ Polling' => pc = "verify" /\ verified]_vars
    /\ (pc = "retry" ~> pc = "verify")

\* C11 witness: after a fail-fast iteration of an unverified host and, once
\* approved, a failed update, the agent is polling again.
C11_Witness ==
    /\ pc = "check"
    /\ report # NoCode
    /\ trace.ret = "Err"

\* ===================================================================
\* properties of the secret store (checked under SpecStore)
\* ===================================================================

\* The ACL of secret s in the store lists host h.
InAcl(store, s, h) ==
    s \in DOMAIN store.acl /\ \E i \in 1..Len(store.acl[s]) : store.acl[s][i] = h
\* Host h can read secret s: get_secret_for returns Some.
CanRead(store, s, h) ==
    \E r \in Recipients : get_secret_for(store, s, store_key, h, r).val # {}
\* The last call has returned and was a call of this method.
Did(op) == last.op = op

\* C12: whatever calls came before, get_secret_for(s, h) returns Some only
\* if s is a stored secret and h is in the ACL of s.
C12_SomeOnlyIfStoredAndInAcl ==
    /\ \A s \in StoreNames, h \in Hosts :
         CanRead(self, s, h) => s \in list_secrets /\ InAcl(self, s, h)
    /\ Did("get_secret_for") /\ last.ret.val # {} =>
         last.secret \in list_secrets /\ InAcl(self, last.secret, last.host)

\* C12 witness: a call of get_secret_for has returned Some, for a secret
\* whose ACL lists other hosts as well.
C12_Witness ==
    /\ Did("get_secret_for")
    /\ last.ret.val # {}
    /\ \E h \in Hosts \ {last.host} : InAcl(self, last.secret, h)

\* C14: add_secret returns an error for every payload that does not decrypt
\* under the store key, and then the secrets map and the ACL map are as they
\* were before the call.
C14_RejectedPayloadChangesNothing ==
    Did("add_secret") =>
        /\ decrypt(store_key, last.payload) = {} => last.ret = Err
        /\ last.ret = Err => secrets = before.secrets /\ acl = before.acl

\* C14 witness: add_secret has rejected a payload for a name under which a
\* secret with an ACL is stored.
C14_Witness ==
    /\ Did("add_secret")
    /\ last.ret = Err
    /\ last.secret \in list_secrets
    /\ \E h \in Hosts : InAcl(self, last.secret, h)

\* C15: for a host that is not in the ACL of s, the response is Ok(None)
\* whether s is stored or not (whatever is stored under s), and for a secret
\* that is not stored it is Ok(None) whether the host is in its ACL or not:
\* two stores that differ only in the existence of a secret the host may not
\* read give the host the same response.
C15_MissingAndDeniedAlike ==
    \A s \in StoreNames, h \in Hosts, r \in Recipients :
        /\ ~InAcl(self, s, h) =>
             /\ get_secret_for([self EXCEPT !.secrets = remove(secrets, s)],
                               s, store_key, h, r) = Ok({})
             /\ \A p \in Payloads :
                  get_secret_for([self EXCEPT !.secrets = insert(secrets, s, p)],
                                 s, store_key, h, r) = Ok({})
        /\ s \notin list_secrets => get_secret_for(self, s, store_key, h, r) = Ok({})
        /\ Did("get_secret_for") /\ ~(last.secret \in list_secrets /\ InAcl(self, last.secret, last.host))
             => last.ret = Ok({})

\* C15 witness: get_secret_for has answered Ok(None) to a host that is not
\* in the ACL of a stored secret, while the ACL of a secret that is not
\* stored lists that host.
C15_Witness ==
    /\ Did("get_secret_for")
    /\ last.ret = Ok({})
    /\ last.secret \in list_secrets
    /\ ~InAcl(self, last.secret, last.host)
    /\ \E s \in StoreNames \ list_secrets : InAcl(self, s, last.host)

\* C16: after remove_access_for(s, h) the host h does not read s, however
\* often it was granted; the secrets, the access of every other host to s and
\* the access of h to the other secrets are as before.
C16_RevokeTakesEveryGrant ==
    Did("remove_access_for") =>
        /\ ~InAcl(self, last.secret, last.host)
        /\ ~CanRead(self, last.secret, last.host)
        /\ secrets = before.secrets
        /\ \A s \in StoreNames, h \in Hosts :
             <<s, h>> # <<last.secret, last.host>> =>
                 /\ InAcl(self, s, h) <=> InAcl(before, s, h)
                 /\ CanRead(self, s, h) <=> CanRead(before, s, h)

\* C16 witness: remove_access_for has returned for a host that had been
\* granted a stored secret twice, next to another host.
C16_Witness ==
    /\ Did("remove_access_for")
    /\ last.secret \in list_secrets
    /\ last.secret \in DOMAIN before.acl
    /\ Cardinality({i \in 1..Len(before.acl[last.secret]) :
                      before.acl[last.secret][i] = last.host}) = 2
    /\ \E h \in Hosts \ {last.host} : CanRead(self, last.secret, h)

\* C17: after remove_host(h) no ACL lists h and h reads no secret; the
\* secrets and the ACL membership of every other host are as before.
C17_RemoveHostPurgesEveryAcl ==
    Did("remove_host") =>
        /\ \A s \in StoreNames :
             ~InAcl(self, s, last.host) /\ ~CanRead(self, s, last.host)
        /\ secrets = before.secrets
        /\ DOMAIN acl = DOMAIN before.acl
        /\ \A s \in StoreNames, h \in Hosts \ {last.host} :
             InAcl(self, s, h) <=> InAcl(before, s, h)

\* C17 witness: remove_host has returned for a host that was in the ACLs of
\* two stored secrets, one of which another host reads.
C17_Witness ==
    /\ Did("remove_host")
    /\ \A s \in StoreNames : s \in list_secrets /\ InAcl(before, s, last.host)
    /\ \E s \in StoreNames, h \in Hosts : CanRead(self, s, h)

\* C18: after rename_host(old, new) with old # new, new reads s iff old or
\* new read s before, old reads nothing and is in no ACL; the secrets and
\* the access of all other hosts are as before.
C18_RenameHostMovesAccess ==
    Did("rename_host") /\ last.host # last.new =>
        /\ \A s \in StoreNames :
             /\ CanRead(self, s, last.new)
                  <=> (CanRead(before, s, last.host) \/ CanRead(before, s, last.new))
             /\ ~CanRead(self, s, last.host)
             /\ ~InAcl(self, s, last.host)
        /\ secrets = before.secrets
        /\ \A s \in StoreNames, h \in Hosts \ {last.host, last.new} :
             /\ InAcl(self, s, h) <=> InAcl(before, s, h)
             /\ CanRead(self, s, h) <=> CanRead(before, s, h)

\* C18 witness: rename_host has returned for a host that was listed twice in
\* the ACL of a stored secret which a third host reads too.
C18_Witness ==
    /\ Did("rename_host")
    /\ last.host # last.new
    /\ \E s \in list_secrets :
         /\ s \in DOMAIN before.acl
         /\ Cardinality({i \in 1..Len(before.acl[s]) : before.acl[s][i] = last.host}) = 2
         /\ \E h \in Hosts \ {last.host, last.new} : CanRead(self, s, h)

\* C19: after rename_secret(old, new) on a stored secret old (old # new), old
\* names neither a stored secret nor an ACL entry, new carries the ciphertext
\* and the ACL that old had, and a host reads new iff it read old before.
C19_RenameSecretCarriesCiphertextAndAcl ==
    Did("rename_secret") /\ last.secret # last.new /\ last.secret \in DOMAIN before.secrets =>
        /\ last.secret \notin list_secrets
        /\ last.secret \notin DOMAIN get_all_acl
        /\ last.new \in list_secrets
        /\ secrets[last.new] = before.secrets[last.secret]
        /\ or_default(acl, last.new) = or_default(before.acl, last.secret)
        /\ \A h \in Hosts :
             CanRead(self, last.new, h) <=> CanRead(before, last.secret, h)

\* C21: rename_secret(old, new) where old and new name two different stored
\* secrets is rejected and changes nothing: new keeps its ciphertext and
\* its ACL (and old stays as it was).
C21_RenameOntoUsedNameRejected ==
    Did("rename_secret") /\ last.secret # last.new
        /\ {last.secret, last.new} \subseteq DOMAIN before.secrets =>
        /\ last.ret.err
        /\ self = before
        /\ secrets[last.new] = before.secrets[last.new]
        /\ or_default(acl, last.new) = or_default(before.acl, last.new)

\* ===================================================================
\* properties of the stored plaintexts (checked under SpecPlaintexts)
\* ===================================================================

\* What a host with this identity gets out of the response to its request
\* for secret s: the plaintext, or nothing.
ReadBy(identity, s, h) ==
    LET got == get_secret_for(self, s, store_key, h, to_public(identity))
    IN  IF got.val = {} THEN {} ELSE decrypt(identity, The(got.val))

\* add_secret overwrites by name and leaves the ACL alone.
AddSecretOverwrites ==
    Did("add_secret") /\ last.ret = Ok({}) =>
        /\ secrets[last.secret] = last.payload
        /\ acl = before.acl
        /\ \A s \in StoreNames \ {last.secret} :
             /\ s \in list_secrets <=> s \in DOMAIN before.secrets
             /\ s \in list_secrets => secrets[s] = before.secrets[s]

\* C13 (as claimed): for every stored secret s, host h in the ACL of s and
\* identity I, decrypting get_secret_for(s, h, to_public(I)) under I gives the
\* plaintext that add_secret accepted last under the name s.
C13_ReadsLastAcceptedUnderName ==
    /\ \A s \in list_secrets, h \in Hosts, identity \in Identities :
         InAcl(self, s, h) =>
             ReadBy(identity, s, h) # {} /\ ReadBy(identity, s, h) = accepted[s]
    /\ AddSecretOverwrites

\* C13 (amended): ... gives the plaintext that now goes by the name s: the
\* one add_secret accepted last under s or, if rename_secret has moved a
\* secret to s since, the plaintext of that secret.
C13_ReadsPlaintextUnderName ==
    /\ \A s \in list_secrets, h \in Hosts, identity \in Identities :
         InAcl(self, s, h) =>
             ReadBy(identity, s, h) # {} /\ ReadBy(identity, s, h) = plaintext[s]
    /\ \A s \in StoreNames : s \notin list_secrets => plaintext[s] = {}
    /\ AddSecretOverwrites

\* C13 witness: a host has been handed a secret that was overwritten by
\* add_secret after the host was granted it, and reads the later plaintext.
C13_Witness ==
    /\ Did("get_secret_for")
    /\ last.ret.val # {}
    /\ last.recipient = to_public("host")
    /\ accepted[last.secret] = {"hunter2"}
    /\ decrypt("host", The(last.ret.val)) = {"hunter2"}
    /\ accepted[last.secret] = plaintext[last.secret]
    /\ \E s \in StoreNames : accepted[s] = {"secret_text"} /\ plaintext[s] = {}

\* ===================================================================
\* properties of removal (checked under SpecRemovals)
\* ===================================================================

\* After remove_secret(s) the name is in neither list_secrets nor the ACL map.
RemovedIsGone ==
    Did("remove_secret") =>
        last.secret \notin list_secrets /\ last.secret \notin DOMAIN get_all_acl

\* C20 (as claimed): after remove_secret(s), s is absent from list_secrets
\* and from the ACL map, and when add_secret stores a secret under s again
\* before any add_access_for on s, no host reads it.
C20_NoAccessAfterReAdd ==
    /\ RemovedIsGone
    /\ \A s \in StoreNames :
         removal[s] # "live" /\ Did("add_secret") /\ last.secret = s /\ last.ret = Ok({})
             => \A h \in Hosts : ~CanRead(self, s, h)

\* C20 (amended): ... no host reads a secret under s from remove_secret(s)
\* until add_access_for grants s again or rename_secret brings the ACL entry
\* of another name to s.
C20_NoAccessUntilGrantOrRename ==
    /\ RemovedIsGone
    /\ \A s \in StoreNames :
         removal[s] = "removed" => \A h \in Hosts : ~InAcl(self, s, h) /\ ~CanRead(self, s, h)

\* C20 witness: a secret that a host could read was removed and added again
\* under its name, and the host has asked for it.
C20_Witness ==
    /\ Did("get_secret_for")
    /\ removal[last.secret] = "removed"
    /\ last.secret \in list_secrets
    /\ last.ret = Ok({})
    /\ \E s \in StoreNames \ {last.secret} : CanRead(self, s, last.host)

\* ===================================================================
\* properties of the policy store (checked under SpecPolicy)
\* ===================================================================

\* The policy of every key but <<owner, action>> is what it was before the
\* last call: no such policy appeared, went or changed.
OtherPoliciesUnchanged(owner, action) ==
    \A k \in (Owners \X Actions) \ {<<owner, action>>} :
        /\ k \in DOMAIN policy_store.policies <=> k \in DOMAIN asked.before.policies
        /\ k \in DOMAIN policy_store.policies =>
             policy_store.policies[k] = asked.before.policies[k]

\* C22: check_permission(id, action, R) is true iff (id, action) has a policy
\* and some tag of R is in it; so it is false without a policy and for an
\* empty R; a call of it returns that and leaves the store as it was.
C22_PermissionIffSharedTag ==
    /\ \A id \in Owners, action \in Actions, R \in TagSet :
         /\ check_permission(policy_store, id, action, R) <=>
              /\ <<id, action>> \in DOMAIN policy_store.policies
              /\ \E t \in R : t \in policy_store.policies[<<id, action>>]
         /\ <<id, action>> \notin DOMAIN policy_store.policies =>
              ~check_permission(policy_store, id, action, R)
         /\ ~check_permission(policy_store, id, action, {})
    /\ asked.op = "check_permission" =>
         /\ policy_store = asked.before
         /\ asked.check <=>
              /\ <<asked.owner, asked.action>> \in DOMAIN policy_store.policies
              /\ \E t \in asked.tags : t \in policy_store.policies[<<asked.owner, asked.action>>]

\* A call of check_permission answered true for a resource with two tags of
\* which the policy holds one, in a store with another policy that shares
\* no tag with the resource.
C22_Witness ==
    /\ asked.op = "check_permission"
    /\ asked.check
    /\ Cardinality(asked.tags) = 2
    /\ Cardinality(get_tags(policy_store, asked.owner, asked.action)) = 1
    /\ \E k \in DOMAIN policy_store.policies :
         /\ k # <<asked.owner, asked.action>>
         /\ policy_store.policies[k] = {}

\* C23: right after delete_tag(t), t is in no policy and not a known tag,
\* no check_permission on the resource tags {t} is true, every other tag is
\* where it was (in the known tags and in every policy, and no policy
\* appeared or went), and the delete of a tag that was neither known nor in
\* any policy changed nothing.
C23_DeleteTagPurgesTag ==
    asked.op = "delete_tag" =>
        LET t == asked.tag
            was == asked.before
        IN  /\ \A k \in DOMAIN policy_store.policies : t \notin policy_store.policies[k]
            /\ t \notin policy_store.tags
            /\ \A id \in Owners, action \in Actions :
                 ~check_permission(policy_store, id, action, {t})
            /\ policy_store.tags \ {t} = was.tags \ {t}
            /\ DOMAIN policy_store.policies = DOMAIN was.policies
            /\ \A k \in DOMAIN was.policies :
                 policy_store.policies[k] \ {t} = was.policies[k] \ {t}
            /\ (t \notin was.tags /\ \A k \in DOMAIN was.policies : t \notin was.policies[k])
                 => policy_store = was

\* delete_tag of a known tag that two policies held, one of them together
\* with the other tag, which stays.
C23_Witness ==
    /\ asked.op = "delete_tag"
    /\ asked.tag \in asked.before.tags
    /\ Cardinality({k \in DOMAIN asked.before.policies :
                      asked.tag \in asked.before.policies[k]}) = 2
    /\ \E k \in DOMAIN asked.before.policies :
         /\ asked.before.policies[k] = Tags
         /\ policy_store.policies[k] = Tags \ {asked.tag}
    /\ policy_store.tags # {}

\* C24: after set_policy(id, action, tags) the policy of (id, action) is
\* exactly tags, a tag the key's earlier policy granted and tags does not
\* hold grants nothing any more, and every other key's policy is unchanged.
C24_SetPolicyReplaces ==
    asked.op = "set_policy" =>
        LET k == <<asked.owner, asked.action>>
        IN  /\ k \in DOMAIN policy_store.policies
            /\ policy_store.policies[k] = asked.tags
            /\ get_tags(policy_store, asked.owner, asked.action) = asked.tags
            /\ \A t \in get_tags(asked.before, asked.owner, asked.action) \ asked.tags :
                 ~check_permission(policy_store, asked.owner, asked.action, {t})
            /\ OtherPoliciesUnchanged(asked.owner, asked.action)

\* set_policy on a key whose earlier policy granted a tag the new one does
\* not, next to another key's policy.
C24_Witness ==
    /\ asked.op = "set_policy"
    /\ asked.tags # {}
    /\ get_tags(asked.before, asked.owner, asked.action) \ asked.tags # {}
    /\ \E k \in DOMAIN policy_store.policies :
         k # <<asked.owner, asked.action>> /\ policy_store.policies[k] # {}

\* C25: after delete_policy(id, action), check_permission(id, action, R) is
\* false for every R, the known tags are what they were, and every other
\* key's policy is unchanged.
C25_DeletePolicyKeepsTags ==
    asked.op = "delete_policy" =>
        /\ \A R \in TagSet : ~check_permission(policy_store, asked.owner, asked.action, R)
        /\ policy_store.tags = asked.before.tags
        /\ OtherPoliciesUnchanged(asked.owner, asked.action)

\* delete_policy of a policy that granted a known tag, next to another
\* key's policy on the same tag.
C25_Witness ==
    /\ asked.op = "delete_policy"
    /\ \E t \in asked.before.tags :
         /\ t \in get_tags(asked.before, asked.owner, asked.action)
         /\ t \in policy_store.tags
         /\ \E k \in DOMAIN policy_store.policies : t \in policy_store.policies[k]
    /\ asked.removed # {}

\* ===================================================================
\* properties of the persistence (checked under SpecPersist)
\* ===================================================================

\* The file holds a whole document.
Parses(path) == files[path] # {} /\ ~from_reader(The(files[path])).err

\* C26: a persistence file that has once held a complete AppState is never
\* seen empty or cut off afterwards: at every step of the save task and
\* after every crash it holds a document that startup can parse.
C26_FileNeverTorn == \A path \in snapshots.held : Parses(path)

\* C27: whatever YEET_STATE is, when the coordinator has started and the
\* file its save task writes holds a complete document (what a save task
\* persisted last), the AppState main loaded is the one of that document;
\* so it starts from another state, such as the default one, only when that
\* file is missing.
C27_LoadsWhatSaveTaskWrote ==
    (main = "up" /\ save.pc = "open" /\ Parses(state_location)) =>
        from_reader(The(files[state_location])).val = snapshots.loaded

C30_NoFileIOUnderGuard ==
    save.pc \in {"truncate", "write"} => guard # "read"

\* ===================================================================
\* properties of the secret routes (checked under SpecRoutes)
\* ===================================================================

\* C29: on /secret/add, /secret/rename, /secret/remove and /secret/acl the
\* signature is verified, then the key authorized, then the state changed:
\* a request whose signature does not verify is answered 401 and one whose
\* key is not authorized 403, no call on the state is made for either, and
\* AppState is as it was when the request came in.
C29_VerifyThenAuthorizeThenMutate ==
    /\ request.stage \in {"authorized", "done"} =>
         verify(request) /\ auth_admin(request.key)
    /\ (request.stage \notin {"none", "verified"}
            /\ ~(verify(request) /\ auth_admin(request.key))) =>
         /\ request.stage = "refused"
         /\ request.status = IF verify(request) THEN "403" ELSE "401"
         /\ last = NoCall
         /\ self = request.before
         /\ guard = "free"
    /\ request.stage = "verified" => verify(request) /\ self = request.before
    /\ last # NoCall => request.stage = "authorized"

\* Refused for the key (the signature verified): the removal of a stored
\* secret that hosts can read, on every route; and refused for the
\* signature with an admin's key.
C29_Witness ==
    /\ request.stage = "refused"
    /\ request.status = "403"
    /\ request.route = "/secret/remove"
    /\ request.name \in list_secrets
    /\ CanRead(self, request.name, "myhost")

\* ===================================================================
\* invariants of the stores (checked under SpecStore and SpecPolicy)
\* ===================================================================

\* C36: the ACL of every secret is a set: in the map get_all_acl returns no
\* host name occurs more than once in the list of any stored secret.
C36_AclListsHaveNoDuplicates ==
    \A s \in DOMAIN get_all_acl \cap list_secrets :
        \A i, j \in 1..Len(get_all_acl[s]) :
            get_all_acl[s][i] = get_all_acl[s][j] => i = j

\* C37: every tag in the tag set of any policy is a known tag (created by
\* create_tag and not deleted since).
C37_PoliciesHoldKnownTags ==
    \A k \in DOMAIN policy_store.policies :
        policy_store.policies[k] \subseteq policy_store.tags

\* C40: every name with an entry in the ACL map is the name of a stored
\* secret, so get_all_acl lists no secret that list_secrets does not, and
\* no host is in the ACL of a name before a secret is stored under it.
C40_AclEntriesNameStoredSecrets ==
    /\ DOMAIN get_all_acl \subseteq list_secrets
    /\ \A s \in StoreNames, h \in Hosts : InAcl(self, s, h) => s \in list_secrets

\* ===================================================================
\* re-enrollment (checked under SpecEnrolFair)
\* ===================================================================

\* C39: whenever the agent's key is no active host and the coordinator has
\* no open verification attempt for it, the running agent eventually
\* submits a new attempt: it reaches the POST of agent_loop or an attempt
\* is open again.
C39_UnenrolledAgentSubmitsAgain ==
    (~verified /\ pending = NoCode) ~> (pc = "attempt" \/ pending # NoCode)

\* C35 as stated: a failed fetch of the netrc secret does not abort the
\* update and nix-store runs without a netrc-file option; download() fails
\* only when the store tool fails; after a failed download no secret was
\* fetched and the generation directories, the symlink and the system profile
\* are what they were before the update.
C35_DownloadFailsOnlyOnStoreTool ==
    /\ pc = "realise" /\ u.netrc = "Err" => ~u.netrc_file
    /\ trace.download # "none" =>
          /\ trace.download = "store"
          /\ trace.ret = "Err"
          /\ ~trace.manifest /\ ~trace.fetchFailed /\ trace.staged = {}
          /\ dirs = pre.dirs /\ link = pre.link /\ profile = pre.profile

\* C35, amended: a failed fetch of the netrc secret does not abort the update
\* and nix-store runs without a netrc-file option; download() fails when the
\* store tool fails, and also when nix.conf cannot be opened, the temp file
\* cannot be made or a netrc that was got cannot be written to it; after a
\* failed download no secret was fetched and the generation directories, the
\* symlink and the system profile are what they were before the update.
C35_NetrcFailureDoesNotAbort ==
    /\ pc = "realise" => u.netrc \in NetrcAnswers /\ u.netrc_file = (u.netrc = "Some")
    /\ trace.download # "none" =>
          /\ trace.download \in {"keys", "tempfile", "write", "store"}
          /\ trace.ret = "Err"
          /\ ~trace.manifest /\ ~trace.fetchFailed /\ trace.staged = {}
          /\ dirs = pre.dirs /\ link = pre.link /\ profile = pre.profile

\* The fetch of the netrc secret failed and nix-store runs, without a
\* netrc-file option, in an update that follows a committed one.
C35_Witness ==
    /\ pc = "realise"
    /\ u.netrc = "Err"
    /\ ~u.netrc_file
    /\ link # {}

\* ===================================================================
\* the order of the steps of one update (checked under SpecUpdate)
\* ===================================================================

\* The step that comes right after a step that succeeded.
AfterOk ==
    {<<"download", "manifest">>, <<"manifest", "fetch">>, <<"fetch", "create">>,
     <<"create", "flip">>, <<"flip", "profile">>, <<"profile", "script">>,
     <<"script", "read">>, <<"read", "gc">>, <<"read", "rollback">>}

\* The steps of the running or last update follow each other from the
\* download on: after a step that succeeded comes the next one (an artifact
\* that declares no secrets has nothing to fetch, stage or flip), and after a
\* step of `survivable` that failed comes the read of the active version.
StepsFollow(survivable) ==
    /\ trace.steps # <<>> => trace.steps[1].step = "download"
    /\ \A i \in 1..(Len(trace.steps) - 1) :
         LET a == trace.steps[i]
             b == trace.steps[i + 1]
         IN  \/ a.ok /\ <<a.step, b.step>> \in AfterOk \cup {<<"download", "profile">>}
             \/ ~a.ok /\ a.step \in survivable /\ b.step = "read"

\* The garbage collection has run only after a read of the active version
\* that gave the requested store path, and in an update that staged a
\* generation the link was flipped to it before set_system_profile.
FlipAndConfirmation ==
    /\ trace.committed => active = trace.version /\ ~trace.mismatch
    /\ \A i \in 1..Len(trace.steps) :
         trace.steps[i].step = "profile" /\ trace.manifest =>
            /\ i > 1
            /\ trace.steps[i - 1] = [step |-> "flip", ok |-> TRUE]
            /\ trace.staged # {}

\* C34 as stated: the steps of one update happen in the order download,
\* fetch, creation of the generation, flip, set system profile, activation
\* script, read of the active version, then garbage collection or rollback,
\* each only if all earlier ones succeeded; the flip precedes activation and
\* garbage collection follows a read of the active version that matched.
C34_EachStepAfterEarlierSucceeded ==
    /\ StepsFollow({})
    /\ FlipAndConfirmation

\* C34, amended: the same order, where each step up to the start of the
\* activation script happens only if all earlier ones succeeded, and the read
\* of the active version (and then the rollback or the garbage collection)
\* happens also when set_system_profile or the activation script failed.
C34_StepsInOrder ==
    /\ StepsFollow({"profile", "script"})
    /\ FlipAndConfirmation

\* An update of an artifact with a manifest went through all nine steps and
\* committed, and a generation of an earlier update is gone.
C34_Witness ==
    /\ trace.committed
    /\ Len(trace.steps) = 9
    /\ \E n \in seen : n \notin DOMAIN dirs

\* ===================================================================
\* recovery from an interrupted update (checked under SpecRestart)
\* ===================================================================

\* The running or last update followed one that was interrupted after it
\* had flipped the link to the generation it staged.
AfterInterrupted == pre.interrupted.on /\ pre.interrupted.staged # {}

\* The running or last update has finished its rollback.
RolledBack ==
    /\ trace.mismatch
    /\ trace.steps # <<>>
    /\ trace.steps[Len(trace.steps)] = [step |-> "rollback", ok |-> TRUE]

\* C33: the update that follows an interrupted one, once rolled back, leaves
\* the link on the generation that was current before the interrupted update
\* and not on the one the interrupted update staged; once it has committed a
\* generation it staged, it leaves only that generation.
C33_InterruptedUpdateRecovers ==
    AfterInterrupted =>
        /\ RolledBack =>
              /\ link = pre.interrupted.link
              /\ link # pre.interrupted.staged
        /\ trace.committed /\ trace.staged # {} =>
              /\ DOMAIN dirs = link
              /\ link = trace.staged
              /\ link # pre.interrupted.staged

\* ===================================================================
\* authorization of the secret routes (checked under SpecAuthz)
\* ===================================================================

\* The action each mutating secret route is to be authorized by.
ActionOf(route) ==
    IF route = "/secret/add" THEN "Secret::CreateOrUpdate"
    ELSE IF route = "/secret/rename" THEN "Secret::Rename"
    ELSE IF route = "/secret/remove" THEN "Secret::Remove"
    ELSE "Secret::ACL"

\* The identity holds a policy for the action.
HoldsPolicy(identity, action) == get_tags(policy_store, identity, action) # {}

\* C32: when the handler of a secret route decides on a verified request, it
\* lets the request through iff the key is an admin key or its identity holds
\* a policy for the action of the route.
C32_SecretRoutesFollowPolicy ==
    [][request.stage = "verified" /\ request'.stage \in {"authorized", "refused"} =>
         (request'.stage = "authorized"
            <=> \/ auth_admin(request.key)
                \/ HoldsPolicy(request.key, ActionOf(request.route)))]_vars

\* ===================================================================
\* handlers and the save task under the lock (checked under SpecLock)
\* ===================================================================

\* The first handler is between taking the write guard and returning.
RequestHoldsGuard == request.stage = "authorized"
\* The second handler is between taking the write guard and returning.
PeerHoldsGuard == peer.stage \in {"entered", "halfway", "removed"}

\* C31: the write guard is held by exactly one handler from before its
\* authorization check until it returns; a handler begins on AppState as
\* the last handler to return left it; and what the save task serialized and
\* is writing is AppState as the last handler to return left it, which stays
\* so for as long as the read guard is held: no reader sees a state between
\* the two removals of remove_secret or between a mutation and the return of
\* its handler.
C31_ReadersSeeCommittedStates ==
    /\ ~(RequestHoldsGuard /\ PeerHoldsGuard)
    /\ (guard = "write") <=> (RequestHoldsGuard \/ PeerHoldsGuard)
    /\ (guard = "read") <=> save.pc \in {"truncate", "write"}
    /\ RequestHoldsGuard /\ last = NoCall => self = peer.committed
    /\ peer.stage = "entered" => self = peer.committed
    /\ guard # "write" /\ main = "up" => self = peer.committed
    /\ save.pc \in {"truncate", "write"} => save.data = to_vec_pretty(peer.committed)

\* The save task is writing a snapshot that holds a secret and its ACL while
\* both handlers wait for the write guard, after a removal by the second
\* handler.
C31_Witness ==
    /\ save.pc = "write"
    /\ request.stage = "verified"
    /\ peer.stage = "verified"
    /\ "my_secret" \in DOMAIN save.data[2]
    /\ "my_secret" \in DOMAIN save.data[3]
    /\ snapshots.task # {}
    /\ \E d \in snapshots.task : "my_secret" \notin DOMAIN d[2]

\* ===================================================================
\* persistence of every change (checked under SpecSaveFair)
\* ===================================================================

\* The file of the save task holds the serialization of AppState.
Persisted == files[state_location] = {to_vec_pretty(self)}

\* C38: in a coordinator that is up, AppState keeps changing or its file
\* comes to hold the serialization of AppState again and again; so a state
\* that stays after the last change is in the file from some time on.
C38_ChangesEventuallyPersisted ==
    \/ []<>(main = "up" => Persisted)
    \/ []<><<self' # self>>_vars

\* A secret was added after the first snapshot was written, and the file
\* holds the serialization of AppState with it.
C38_Witness ==
    /\ main = "up"
    /\ "my_secret" \in DOMAIN secrets
    /\ snapshots.loaded = {default}
    /\ Persisted
    /\ request.stage = "done"

====
